---- MODULE Spec2Model ----
(***************************************************************************)
(* A model of the evaluation-metrics and security-screening toolkit of     *)
(* ai-threat-analytics-framework (core/metrics.py, core/anomaly_utils.py,  *)
(* core/security_checks.py, core/summarizer.py, core/guardrails.py,        *)
(* core/threat_classifier.py, core/helpers.py).                            *)
(*                                                                         *)
(* The toolkit is a library of functions.  A state of the model is one     *)
(* call frame: which function is called (call), with which arguments       *)
(* (args), whether it has run (pc) and what it returned or raised          *)
(* (result), together with the module-level PII_PATTERNS table of          *)
(* core/security_checks.py (pii_table) and the local variables of a call   *)
(* that runs in several steps (locals).                                    *)
(* Each specification draws the arguments of one family of                 *)
(* functions from bounded sets in its initial predicate and has one        *)
(* action per function, which applies the function as the code computes    *)
(* it.                                                                     *)
(*                                                                         *)
(* Texts are sequences of one-character strings.  Python floats that the   *)
(* code produces by dividing integers are kept as exact fractions          *)
(* <<numerator, denominator>>.                                             *)
(***************************************************************************)
EXTENDS Integers, Sequences, FiniteSets, TLC

VARIABLES pc, call, args, result, pii_table, locals

vars == <<pc, call, args, result, pii_table, locals>>

(***************************************************************************)
(* Generic helpers                                                         *)
(***************************************************************************)
Range(s) == {s[i] : i \in DOMAIN s}

Min(a, b) == IF a <= b THEN a ELSE b

Max(a, b) == IF a >= b THEN a ELSE b

Abs(x) == IF x < 0 THEN -x ELSE x

RECURSIVE Flatten(_)
Flatten(ss) ==
    IF ss = <<>> THEN <<>> ELSE Head(ss) \o Flatten(Tail(ss))

\* All sequences over S of length at most n.
SeqsUpTo(S, n) == UNION {[1..k -> S] : k \in 0..n}

(***************************************************************************)
(* Characters: the classes the patterns of the code name, and str.lower()  *)
(* and str.upper() on ASCII letters.                                       *)
(***************************************************************************)
ALPHA_LOWER == <<"a","b","c","d","e","f","g","h","i","j","k","l","m",
                 "n","o","p","q","r","s","t","u","v","w","x","y","z">>

ALPHA_UPPER == <<"A","B","C","D","E","F","G","H","I","J","K","L","M",
                 "N","O","P","Q","R","S","T","U","V","W","X","Y","Z">>

Lower == Range(ALPHA_LOWER)

Upper == Range(ALPHA_UPPER)

Digit == {"0","1","2","3","4","5","6","7","8","9"}

\* \w on ASCII text
WordChar == Lower \cup Upper \cup Digit \cup {"_"}

\* \s on ASCII text
SpaceChar == {" ", "\t", "\n", "\r", "\f"}

lower_char(c) ==
    IF c \in Upper
    THEN ALPHA_LOWER[CHOOSE i \in DOMAIN ALPHA_UPPER : ALPHA_UPPER[i] = c]
    ELSE c

upper_char(c) ==
    IF c \in Lower
    THEN ALPHA_UPPER[CHOOSE i \in DOMAIN ALPHA_LOWER : ALPHA_LOWER[i] = c]
    ELSE c

\* str.lower()
lower(text) == [i \in DOMAIN text |-> lower_char(text[i])]

\* str.upper()
upper(text) == [i \in DOMAIN text |-> upper_char(text[i])]

(***************************************************************************)
(* Regular expressions, as Python's re module matches them: a              *)
(* backtracking matcher with greedy quantifiers.  A pattern is a tree;     *)
(* ReEnds(r, t, p) is the sequence of positions at which a match of r      *)
(* that starts at position p of t can end, in the order in which the       *)
(* matcher tries them, so that its head is the match re finds at p.        *)
(* Positions count the characters before the cursor (0 .. Len(t)).         *)
(***************************************************************************)
ReSet(S) == [op |-> "set", chars |-> S]

ReAny == [op |-> "any"]

ReWordBoundary == [op |-> "wb"]

ReCat(parts) == [op |-> "cat", parts |-> parts]

ReAlt(alts) == [op |-> "alt", alts |-> alts]

\* r{min,max}, greedy; max = -1 is no upper limit
ReRep(r, min, max) == [op |-> "rep", r |-> r, min |-> min, max |-> max]

ReLit(s) == ReCat([i \in DOMAIN s |-> ReSet({s[i]})])

ReOpt(r) == ReRep(r, 0, 1)

RePlus(r) == ReRep(r, 1, -1)

ReStar(r) == ReRep(r, 0, -1)

\* \b: exactly one of the two neighbours is a word character
IsWordBoundary(t, p) ==
    (p > 0 /\ t[p] \in WordChar) # (p < Len(t) /\ t[p + 1] \in WordChar)

\* the least element of a non-empty set of numbers
SetMin(S) == CHOOSE x \in S : \A y \in S : x <= y

\* a pattern that matches exactly one character: a class or the dot
IsOneChar(r) == r.op \in {"set", "any"}

OneCharMatches(r, c) ==
    IF r.op = "set" THEN c \in r.chars ELSE c # "\n"

\* the number of characters from position p on that the one-character
\* pattern r matches in a row, at most limit of them
RunLength(r, t, p, limit) ==
    SetMin({k \in 0..limit : k = limit \/ ~OneCharMatches(r, t[p + k + 1])})

RECURSIVE ReEnds(_, _, _)
RECURSIVE ReCatEnds(_, _, _, _)
RECURSIVE ReAltEnds(_, _, _, _)
RECURSIVE ReRepEnds(_, _, _, _)
RECURSIVE ReThen(_, _, _, _)
RECURSIVE ReRepThen(_, _, _, _)

ReEnds(r, t, p) ==
    CASE IsOneChar(r) ->
           IF p < Len(t) /\ OneCharMatches(r, t[p + 1]) THEN <<p + 1>> ELSE <<>>
      [] r.op = "wb" -> IF IsWordBoundary(t, p) THEN <<p>> ELSE <<>>
      [] r.op = "cat" -> ReCatEnds(r.parts, 1, t, p)
      [] r.op = "alt" -> ReAltEnds(r.alts, 1, t, p)
      [] r.op = "rep" ->
           IF IsOneChar(r.r)
           THEN \* a class repeated: the longest run first, then one
                \* character fewer at a time, down to min of them
                LET ends(run) == [i \in 1..(run - r.min + 1) |-> p + run - i + 1]
                IN  ends(RunLength(r.r, t, p,
                                   IF r.max = -1 THEN Len(t) - p
                                   ELSE Min(r.max, Len(t) - p)))
           ELSE ReRepEnds(r, 0, t, p)

\* the ends of parts[k..] from each position of ends, in order
ReThen(parts, k, t, ends) ==
    IF ends = <<>> THEN <<>>
    ELSE IF Len(ends) = 1 THEN ReCatEnds(parts, k, t, ends[1])
    ELSE LET half == Len(ends) \div 2
         IN  ReThen(parts, k, t, SubSeq(ends, 1, half))
             \o ReThen(parts, k, t, SubSeq(ends, half + 1, Len(ends)))

ReCatEnds(parts, k, t, p) ==
    IF k > Len(parts) THEN <<p>>
    ELSE ReThen(parts, k + 1, t, ReEnds(parts[k], t, p))

ReAltEnds(alts, k, t, p) ==
    IF k > Len(alts) THEN <<>>
    ELSE ReEnds(alts[k], t, p) \o ReAltEnds(alts, k + 1, t, p)

\* one more repetition from each position of ends that consumed something
ReRepThen(r, count, t, ends) ==
    IF ends = <<>> THEN <<>>
    ELSE IF Len(ends) = 1 THEN ReRepEnds(r, count, t, ends[1])
    ELSE LET half == Len(ends) \div 2
         IN  ReRepThen(r, count, t, SubSeq(ends, 1, half))
             \o ReRepThen(r, count, t, SubSeq(ends, half + 1, Len(ends)))

\* greedy: another repetition is tried before stopping here
ReRepEnds(r, count, t, p) ==
    (IF r.max = -1 \/ count < r.max
     THEN ReRepThen(r, count + 1, t,
                    SelectSeq(ReEnds(r.r, t, p), LAMBDA e : e > p))
     ELSE <<>>)
    \o (IF count >= r.min THEN <<p>> ELSE <<>>)

NoMatch == [start |-> -1, end |-> -1]

\* re.search(pattern, t, pos): the leftmost match starting at or after pos
re_search_from(r, t, pos) ==
    LET among(ends) ==
            LET leftmost(starts) ==
                    IF starts = {} THEN NoMatch
                    ELSE [start |-> SetMin(starts),
                          end |-> Head(ends[SetMin(starts)])]
            IN  leftmost({q \in pos..Len(t) : ends[q] # <<>>})
    IN  among([q \in pos..Len(t) |-> ReEnds(r, t, q)])

\* bool(re.search(pattern, t))
re_search(r, t) == re_search_from(r, t, 0) # NoMatch

\* re.finditer(pattern, t): the non-overlapping matches, left to right
\* (no pattern of the code matches the empty string)
RECURSIVE re_finditer_from(_, _, _)
re_finditer_from(r, t, pos) ==
    LET rest(m) == IF m = NoMatch THEN <<>>
                   ELSE <<m>> \o re_finditer_from(r, t, m.end)
    IN  rest(re_search_from(r, t, pos))

re_finditer(r, t) == re_finditer_from(r, t, 0)

\* only the first match is replaced (re.sub with count = 1)
re_sub_first(r, repl, t) ==
    LET rest(m) == IF m = NoMatch THEN t
                   ELSE SubSeq(t, 1, m.start) \o repl \o SubSeq(t, m.end + 1, Len(t))
    IN  rest(re_search_from(r, t, 0))

\* re.sub(pattern, repl, t): every non-overlapping match replaced by repl
RECURSIVE re_sub_from(_, _, _, _)
re_sub_from(r, repl, t, pos) ==
    LET rest(m) ==
            IF m = NoMatch THEN SubSeq(t, pos + 1, Len(t))
            ELSE SubSeq(t, pos + 1, m.start) \o repl \o re_sub_from(r, repl, t, m.end)
    IN  rest(re_search_from(r, t, pos))

re_sub(r, repl, t) == re_sub_from(r, repl, t, 0)

(***************************************************************************)
(* The outcome of a call                                                   *)
(***************************************************************************)
Pending == [status |-> "pending"]

Returned(v) == [status |-> "returned", value |-> v]

Raised(e) == [status |-> "raised", exception |-> e]

\* A call that runs in one step has no local variable worth a state.
NoLocals == <<>>

(***************************************************************************)
(* core/security_checks.py: PII patterns, redaction, detailed detection    *)
(***************************************************************************)
\* [A-Za-z0-9._%+-]
EmailLocalChar == Lower \cup Upper \cup Digit \cup {".", "_", "%", "+", "-"}

\* [A-Za-z0-9.-]
EmailDomainChar == Lower \cup Upper \cup Digit \cup {".", "-"}

\* [A-Z|a-z]: the bar is a member of the class
EmailTldChar == Lower \cup Upper \cup {"|"}

\* [A-Za-z0-9_-]
ApiKeyChar == Lower \cup Upper \cup Digit \cup {"_", "-"}

ReDigits(n) == ReRep(ReSet(Digit), n, n)

\* \b[A-Za-z0-9._%+-]+@[A-Za-z0-9.-]+\.[A-Z|a-z]{2,}\b
EmailPattern ==
    ReCat(<<ReWordBoundary, RePlus(ReSet(EmailLocalChar)), ReSet({"@"}),
            RePlus(ReSet(EmailDomainChar)), ReSet({"."}),
            ReRep(ReSet(EmailTldChar), 2, -1), ReWordBoundary>>)

\* \b\d{3}-\d{2}-\d{4}\b
SsnPattern ==
    ReCat(<<ReWordBoundary, ReDigits(3), ReSet({"-"}), ReDigits(2),
            ReSet({"-"}), ReDigits(4), ReWordBoundary>>)

\* \b\d{4}[-\s]?\d{4}[-\s]?\d{4}[-\s]?\d{4}\b
CreditCardPattern ==
    LET sep == ReOpt(ReSet({"-"} \cup SpaceChar))
    IN  ReCat(<<ReWordBoundary, ReDigits(4), sep, ReDigits(4), sep,
                ReDigits(4), sep, ReDigits(4), ReWordBoundary>>)

\* \b\d{3}[-.]?\d{3}[-.]?\d{4}\b
PhonePattern ==
    LET sep == ReOpt(ReSet({"-", "."}))
    IN  ReCat(<<ReWordBoundary, ReDigits(3), sep, ReDigits(3), sep,
                ReDigits(4), ReWordBoundary>>)

\* \b(?:\d{1,3}\.){3}\d{1,3}\b
IpAddressPattern ==
    ReCat(<<ReWordBoundary,
            ReRep(ReCat(<<ReRep(ReSet(Digit), 1, 3), ReSet({"."})>>), 3, 3),
            ReRep(ReSet(Digit), 1, 3), ReWordBoundary>>)

\* \b[A-Za-z0-9_-]{32,}\b
ApiKeyPattern ==
    ReCat(<<ReWordBoundary, ReRep(ReSet(ApiKeyChar), 32, -1), ReWordBoundary>>)

\* the dictionary, in its insertion order
PII_PATTERNS ==
    << [name |-> <<"e","m","a","i","l">>, pattern |-> EmailPattern],
       [name |-> <<"s","s","n">>, pattern |-> SsnPattern],
       [name |-> <<"c","r","e","d","i","t","_","c","a","r","d">>,
        pattern |-> CreditCardPattern],
       [name |-> <<"p","h","o","n","e">>, pattern |-> PhonePattern],
       [name |-> <<"i","p","_","a","d","d","r","e","s","s">>,
        pattern |-> IpAddressPattern],
       [name |-> <<"a","p","i","_","k","e","y">>, pattern |-> ApiKeyPattern] >>

\* f'[REDACTED_{pattern_name.upper()}]'
RedactedTag(pattern_name) ==
    <<"[","R","E","D","A","C","T","E","D","_">> \o upper(pattern_name) \o <<"]">>

\* the loop of redact_sensitive_data from entry k on
RECURSIVE redact_from(_, _)
redact_from(text, k) ==
    IF k > Len(PII_PATTERNS) THEN text
    ELSE redact_from(re_sub(PII_PATTERNS[k].pattern,
                            RedactedTag(PII_PATTERNS[k].name), text),
                     k + 1)

redact_sensitive_data(text) == redact_from(text, 1)

\* the findings of one pattern, one per match of re.finditer
PatternFindings(entry, text) ==
    LET matches == re_finditer(entry.pattern, text)
    IN  [i \in DOMAIN matches |->
           LET value == SubSeq(text, matches[i].start + 1, matches[i].end)
           IN  [type |-> entry.name,
                value |-> value,
                start |-> matches[i].start,
                end |-> matches[i].end,
                redacted |-> redact_sensitive_data(value)]]

detect_pii_detailed(text) ==
    Flatten([k \in DOMAIN PII_PATTERNS |-> PatternFindings(PII_PATTERNS[k], text)])

\* (only the first pattern of the table is tried)
contains_pii_first_pattern(text) ==
    IF text = <<>> THEN FALSE
    ELSE re_search(PII_PATTERNS[1].pattern, text)

\* False for the empty text; else True as soon as a pattern of the table
\* is found by re.search
contains_pii(text) ==
    IF text = <<>> THEN FALSE
    ELSE \E k \in DOMAIN PII_PATTERNS : re_search(PII_PATTERNS[k].pattern, text)

(***************************************************************************)
(* SpecPII: redact_sensitive_data and detect_pii_detailed on texts put     *)
(* together from fragments that hold each category of PII, the characters  *)
(* the patterns treat specially, and a placeholder.                        *)
(***************************************************************************)
MaxFragments == 2

PiiFragments ==
    { <<"a","@","b",".","c","o">>,
      <<"1","2","3","-","4","5","-","6","7","8","9">>,
      <<"1","2","3","-","4","5","-","6","7","8","9"," ">>,
      <<"1","2","3","4","5","6","7","8","9","0">>,
      <<"1","2","3","4"," ","5","6","7","8","-","9","0","1","2","3","4","5","6">>,
      <<"1",".","2",".","3",".","4">>,
      <<"k","k","k","k","k","k","k","k","k","k","k","k","k","k","k","k","k",
        "k","k","k","k","-">>,
      <<" ">>, <<".">>, <<"-">>, <<"|">>, <<"1">>, <<"x">> }

PiiTexts == {Flatten(fs) : fs \in SeqsUpTo(PiiFragments, MaxFragments)}

InitPII ==
    /\ pc = "ready"
    /\ call = "none"
    /\ \E text \in PiiTexts : args = [text |-> text]
    /\ result = Pending
    /\ pii_table = PII_PATTERNS
    /\ locals = NoLocals

RedactSensitiveData ==
    /\ pc = "ready"
    /\ pc' = "done"
    /\ call' = "redact_sensitive_data"
    /\ result' = Returned(redact_sensitive_data(args.text))
    /\ UNCHANGED <<args, pii_table, locals>>

DetectPiiDetailed ==
    /\ pc = "ready"
    /\ pc' = "done"
    /\ call' = "detect_pii_detailed"
    /\ result' = Returned(detect_pii_detailed(args.text))
    /\ UNCHANGED <<args, pii_table, locals>>

ContainsPii ==
    /\ pc = "ready"
    /\ pc' = "done"
    /\ call' = "contains_pii"
    /\ result' = Returned(contains_pii(args.text))
    /\ UNCHANGED <<args, pii_table, locals>>

NextPII == RedactSensitiveData \/ DetectPiiDetailed \/ ContainsPii

SpecPII == InitPII /\ [][NextPII]_vars

Redacted == pc = "done" /\ call = "redact_sensitive_data"

Detected == pc = "done" /\ call = "detect_pii_detailed"

\* C4: redact_sensitive_data is idempotent: redacting its own output gives
\* that output again, and no pattern of the six categories matches anywhere
\* in the output (nothing is left to replace, no placeholder is tagged again).
C4_RedactIdempotent ==
    Redacted =>
        /\ redact_sensitive_data(result.value) = result.value
        /\ \A k \in DOMAIN PII_PATTERNS :
               ~re_search(PII_PATTERNS[k].pattern, result.value)

\* C4 witness: a text in which matches of two categories were replaced
C4_Witness ==
    /\ Redacted
    /\ re_search(ReLit(RedactedTag(PII_PATTERNS[1].name)), result.value)
    /\ re_search(ReLit(RedactedTag(PII_PATTERNS[2].name)), result.value)

C8_RedactedIsOwnTag ==
    Detected =>
        \A i \in DOMAIN result.value :
            result.value[i].redacted = RedactedTag(result.value[i].type)

(***************************************************************************)
(* Exact fractions <<n, d>> with d > 0, in lowest terms: the value of a    *)
(* Python float that the code gets by dividing integers, before rounding.  *)
(***************************************************************************)
RECURSIVE GCD(_, _)
GCD(a, b) == IF b = 0 THEN a ELSE GCD(b, a % b)

RatNorm(n, d) ==
    LET s == IF d < 0 THEN -1 ELSE 1
        g == GCD(Abs(n), Abs(d))
    IN  <<(s * n) \div g, (s * d) \div g>>

RatInt(n) == <<n, 1>>

RatAdd(a, b) == RatNorm(a[1] * b[2] + b[1] * a[2], a[2] * b[2])

RatSub(a, b) == RatNorm(a[1] * b[2] - b[1] * a[2], a[2] * b[2])

RatMul(a, b) == RatNorm(a[1] * b[1], a[2] * b[2])

\* b is not zero
RatDiv(a, b) == RatNorm(a[1] * b[2], a[2] * b[1])

RatLess(a, b) == a[1] * b[2] < b[1] * a[2]

RatMax(a, b) == IF RatLess(a, b) THEN b ELSE a

RECURSIVE SumSeq(_)
SumSeq(s) == IF s = <<>> THEN 0 ELSE Head(s) + SumSeq(Tail(s))

(***************************************************************************)
(* core/anomaly_utils.py: detect_anomalies                                 *)
(*                                                                         *)
(* statistics.stdev is the square root of the sample variance, which is    *)
(* not a fraction; the model keeps the variance and compares squares:      *)
(* for z >= 0, z > threshold iff threshold < 0 or z^2 > threshold^2.       *)
(***************************************************************************)
\* statistics.mean(data)
statistics_mean(data) == RatNorm(SumSeq(data), Len(data))

\* (the population variance: the sum divided by n instead of n - 1)
population_variance(data) ==
    LET mean == statistics_mean(data)
        dev(i) == RatSub(RatInt(data[i]), mean)
        RECURSIVE ss(_)
        ss(i) == IF i = 0 THEN RatInt(0)
                 ELSE RatAdd(ss(i - 1), RatMul(dev(i), dev(i)))
    IN  RatDiv(ss(Len(data)), RatInt(Len(data)))

\* statistics.variance(data), of which statistics.stdev is the square root:
\* the squared deviations from the mean, summed, over n - 1
statistics_variance(data) ==
    LET mean == statistics_mean(data)
        dev(i) == RatSub(RatInt(data[i]), mean)
        RECURSIVE ss(_)
        ss(i) == IF i = 0 THEN RatInt(0)
                 ELSE RatAdd(ss(i - 1), RatMul(dev(i), dev(i)))
    IN  RatDiv(ss(Len(data)), RatInt(Len(data) - 1))

\* the square of: abs((value - mean) / stdev) if stdev > 0 else 0
z_score_squared(value, mean, variance) ==
    IF RatLess(RatInt(0), variance)
    THEN LET d == RatSub(RatInt(value), mean)
         IN  RatDiv(RatMul(d, d), variance)
    ELSE RatInt(0)

\* (z_score >= threshold)
z_score_at_least(zsq, threshold) ==
    \/ ~RatLess(RatInt(0), threshold)
    \/ ~RatLess(zsq, RatMul(threshold, threshold))

\* z_score > threshold, for the z_score whose square is zsq
z_score_exceeds(zsq, threshold) ==
    \/ RatLess(threshold, RatInt(0))
    \/ RatLess(RatMul(threshold, threshold), zsq)

\* the loop over enumerate(data), from 0-based index i on
RECURSIVE anomalies_from(_, _, _, _, _)
anomalies_from(data, mean, variance, threshold, i) ==
    IF i >= Len(data) THEN <<>>
    ELSE LET zsq == z_score_squared(data[i + 1], mean, variance)
         IN  (IF z_score_exceeds(zsq, threshold) THEN <<i>> ELSE <<>>)
             \o anomalies_from(data, mean, variance, threshold, i + 1)

detect_anomalies(data, threshold) ==
    IF Len(data) < 2 THEN <<>>
    ELSE anomalies_from(data, statistics_mean(data),
                        statistics_variance(data), threshold, 0)

(***************************************************************************)
(* SpecAnomaly: detect_anomalies on every sequence of at most MaxDataLen   *)
(* values of 0 .. MaxValue, with thresholds in steps of one half from      *)
(* below zero to the default of 2.                                         *)
(***************************************************************************)
MaxDataLen == 6

MaxValue == 1

Thresholds == {RatNorm(k, 2) : k \in -2..4}

InitAnomaly ==
    /\ pc = "ready"
    /\ call = "none"
    /\ \E data \in SeqsUpTo(0..MaxValue, MaxDataLen), threshold \in Thresholds :
           args = [data |-> data, threshold |-> threshold]
    /\ result = Pending
    /\ pii_table = PII_PATTERNS
    /\ locals = NoLocals

DetectAnomalies ==
    /\ pc = "ready"
    /\ pc' = "done"
    /\ call' = "detect_anomalies"
    /\ result' = Returned(detect_anomalies(args.data, args.threshold))
    /\ UNCHANGED <<args, pii_table, locals>>

NextAnomaly == DetectAnomalies

SpecAnomaly == InitAnomaly /\ [][NextAnomaly]_vars

AnomaliesDetected == pc = "done" /\ call = "detect_anomalies"

ZeroVariance(data) ==
    data # <<>> /\ \A i \in DOMAIN data : data[i] = data[1]

IsOutlier(data, i, threshold) ==
    LET n == Len(data)
        S == SumSeq(data)
        Q == SumSeq([j \in DOMAIN data |-> data[j] * data[j]])
        v == data[i + 1]
        a == threshold[1]
        b == threshold[2]
    IN  \/ a < 0
        \/ (n * v - S) * (n * v - S) * (n - 1) * b * b > a * a * n * (n * Q - S * S)

\* C10: with at least two values and a non-zero sample standard deviation,
\* the result lists, strictly increasing, exactly the 0-based indices whose
\* absolute z-score (mean and stdev taken once over the whole sequence) is
\* strictly greater than the threshold; with fewer than two values the
\* result is empty.
C10_ExactlyTheOutliers ==
    AnomaliesDetected =>
        LET data == args.data
            r == result.value
        IN  /\ Len(data) < 2 => r = <<>>
            /\ (Len(data) >= 2 /\ ~ZeroVariance(data)) =>
                 /\ \A j \in 1..(Len(r) - 1) : r[j] < r[j + 1]
                 /\ Range(r) = {i \in 0..(Len(data) - 1) :
                                   IsOutlier(data, i, args.threshold)}

\* C10 witness: at the default threshold 2 one index is flagged, others not
C10_Witness ==
    /\ AnomaliesDetected
    /\ args.threshold = RatInt(2)
    /\ Len(result.value) = 1
    /\ Len(args.data) > 1

(***************************************************************************)
(* core/security_checks.py: check_prompt_injection                         *)
(***************************************************************************)
\* \s+
ReSpaces == RePlus(ReSet(SpaceChar))

\* ignore\s+(all\s+)?previous\s+instructions?
InstructionOverridePattern ==
    ReCat(<<ReLit(<<"i","g","n","o","r","e">>), ReSpaces,
            ReOpt(ReCat(<<ReLit(<<"a","l","l">>), ReSpaces>>)),
            ReLit(<<"p","r","e","v","i","o","u","s">>), ReSpaces,
            ReLit(<<"i","n","s","t","r","u","c","t","i","o","n">>),
            ReOpt(ReLit(<<"s">>))>>)

\* reveal\s+(password|credential|secret|token|key)
CredentialRequestPattern ==
    ReCat(<<ReLit(<<"r","e","v","e","a","l">>), ReSpaces,
            ReAlt(<<ReLit(<<"p","a","s","s","w","o","r","d">>),
                  ReLit(<<"c","r","e","d","e","n","t","i","a","l">>),
                  ReLit(<<"s","e","c","r","e","t">>),
                  ReLit(<<"t","o","k","e","n">>),
                  ReLit(<<"k","e","y">>)>>)>>)

\* (admin|root|system)\s+(password|credential|access)
PrivilegeEscalationPattern ==
    ReCat(<<ReAlt(<<ReLit(<<"a","d","m","i","n">>),
                  ReLit(<<"r","o","o","t">>),
                  ReLit(<<"s","y","s","t","e","m">>)>>),
            ReSpaces,
            ReAlt(<<ReLit(<<"p","a","s","s","w","o","r","d">>),
                  ReLit(<<"c","r","e","d","e","n","t","i","a","l">>),
                  ReLit(<<"a","c","c","e","s","s">>)>>)>>)

\* <script|javascript:
XssAttemptPattern ==
    ReAlt(<<ReLit(<<"<","s","c","r","i","p","t">>),
                  ReLit(<<"j","a","v","a","s","c","r","i","p","t",":">>)>>)

\* (union\s+select|drop\s+table|delete\s+from)
SqlInjectionPattern ==
    ReAlt(<<ReCat(<<ReLit(<<"u","n","i","o","n">>), ReSpaces, ReLit(<<"s","e","l","e","c","t">>)>>),
            ReCat(<<ReLit(<<"d","r","o","p">>), ReSpaces, ReLit(<<"t","a","b","l","e">>)>>),
            ReCat(<<ReLit(<<"d","e","l","e","t","e">>), ReSpaces, ReLit(<<"f","r","o","m">>)>>)>>)

\* (tell|show)\s+me\s+(anything|everything)\s+about
DataExfiltrationPattern ==
    ReCat(<<ReAlt(<<ReLit(<<"t","e","l","l">>),
                  ReLit(<<"s","h","o","w">>)>>), ReSpaces,
            ReLit(<<"m","e">>), ReSpaces,
            ReAlt(<<ReLit(<<"a","n","y","t","h","i","n","g">>),
                  ReLit(<<"e","v","e","r","y","t","h","i","n","g">>)>>), ReSpaces,
            ReLit(<<"a","b","o","u","t">>)>>)

\* bypass\s+(security|policy|restriction|limit)
SecurityBypassPattern ==
    ReCat(<<ReLit(<<"b","y","p","a","s","s">>), ReSpaces,
            ReAlt(<<ReLit(<<"s","e","c","u","r","i","t","y">>),
                  ReLit(<<"p","o","l","i","c","y">>),
                  ReLit(<<"r","e","s","t","r","i","c","t","i","o","n">>),
                  ReLit(<<"l","i","m","i","t">>)>>)>>)

\* \$\{.*\}|%\{.*\}
TemplateInjectionPattern ==
    ReAlt(<<ReCat(<<ReLit(<<"$","{">>), ReStar(ReAny), ReLit(<<"}">>)>>),
            ReCat(<<ReLit(<<"%","{">>), ReStar(ReAny), ReLit(<<"}">>)>>)>>)

\* the list of (pattern, reason) pairs, in its order
injection_patterns ==
    << [pattern |-> InstructionOverridePattern, reason |-> "instruction_override"],
       [pattern |-> CredentialRequestPattern, reason |-> "credential_request"],
       [pattern |-> PrivilegeEscalationPattern, reason |-> "privilege_escalation"],
       [pattern |-> XssAttemptPattern, reason |-> "xss_attempt"],
       [pattern |-> SqlInjectionPattern, reason |-> "sql_injection"],
       [pattern |-> DataExfiltrationPattern, reason |-> "data_exfiltration"],
       [pattern |-> SecurityBypassPattern, reason |-> "security_bypass"],
       [pattern |-> TemplateInjectionPattern, reason |-> "template_injection"] >>

PromptFragments ==
    { <<"I","g","n","o","r","e"," ","p","r","e","v","i","o","u","s"," ","i","n","s","t","r","u","c","t","i","o","n","s">>,
      <<"i","g","n","o","r","e"," ","a","l","l"," "," ","p","r","e","v","i","o","u","s"," ","i","n","s","t","r","u","c","t","i","o","n">>,
      <<"i","g","n","o","r","e">>,
      <<"p","r","e","v","i","o","u","s"," ","i","n","s","t","r","u","c","t","i","o","n","s">>,
      <<" ","a","n","d"," ","r","e","v","e","a","l"," ","s","e","c","r","e","t","s">>,
      <<"R","E","V","E","A","L","\t","T","O","K","E","N">>,
      <<"r","o","o","t"," ","a","c","c","e","s","s">>,
      <<"<","S","C","R","I","P","T",">">>,
      <<"D","r","o","p"," ","T","a","b","l","e">>,
      <<"s","h","o","w"," ","m","e"," ","e","v","e","r","y","t","h","i","n","g"," ","a","b","o","u","t">>,
      <<"B","y","p","a","s","s"," ","p","o","l","i","c","y">>,
      <<"$","{">>,
      <<"}">>,
      <<" ">>,
      <<"W","h","a","t"," ","i","s"," ","t","h","e"," ","w","e","a","t","h","e","r"," ","t","o","d","a","y","?">> }

\* the loop over injection_patterns from entry k on, leaving at the first
\* entry whose pattern is found
RECURSIVE check_from(_, _)
check_from(prompt_lower, k) ==
    IF k > Len(injection_patterns) THEN <<FALSE, "safe">>
    ELSE IF re_search(injection_patterns[k].pattern, prompt_lower)
         THEN <<TRUE, injection_patterns[k].reason>>
         ELSE check_from(prompt_lower, k + 1)

\* (the prompt is searched as given, not lower-cased)
check_prompt_injection_cased(prompt) == check_from(prompt, 1)

check_prompt_injection(prompt) == check_from(lower(prompt), 1)

(***************************************************************************)
(* SpecInjection: check_prompt_injection on prompts put together from      *)
(* phrases of every category, in mixed case, and harmless text.            *)
(***************************************************************************)
MaxPromptFragments == 2

Prompts == {Flatten(fs) : fs \in SeqsUpTo(PromptFragments, MaxPromptFragments)}

InitInjection ==
    /\ pc = "ready"
    /\ call = "none"
    /\ \E prompt \in Prompts : args = [prompt |-> prompt]
    /\ result = Pending
    /\ pii_table = PII_PATTERNS
    /\ locals = NoLocals

CheckPromptInjection ==
    /\ pc = "ready"
    /\ pc' = "done"
    /\ call' = "check_prompt_injection"
    /\ result' = Returned(check_prompt_injection(args.prompt))
    /\ UNCHANGED <<args, pii_table, locals>>

NextInjection == CheckPromptInjection

SpecInjection == InitInjection /\ [][NextInjection]_vars

InjectionChecked == pc = "done" /\ call = "check_prompt_injection"

\* the entries whose pattern matches the lower-cased prompt
MatchingEntries(prompt) ==
    {k \in DOMAIN injection_patterns :
        re_search(injection_patterns[k].pattern, lower(prompt))}

\* C7: the result is (True, tag of the earliest matching entry of the list),
\* and (False, "safe") exactly when no entry matches; a prompt that matches
\* both instruction_override and credential_request is reported as
\* instruction_override.
C7_FirstMatchingTag ==
    InjectionChecked =>
        LET M == MatchingEntries(args.prompt)
        IN  /\ M = {} <=> result.value = <<FALSE, "safe">>
            /\ M # {} =>
                 LET first == CHOOSE k \in M : \A j \in M : k <= j
                 IN  result.value = <<TRUE, injection_patterns[first].reason>>
            /\ {1, 2} \subseteq M => result.value = <<TRUE, "instruction_override">>

\* C7 witness: a prompt with an upper-case letter that matches the first two
\* entries
C7_Witness ==
    /\ InjectionChecked
    /\ {1, 2} \subseteq MatchingEntries(args.prompt)
    /\ args.prompt # lower(args.prompt)
    /\ result.value = <<TRUE, "instruction_override">>

(***************************************************************************)
(* core/metrics.py: rouge_score and bleu_score                             *)
(***************************************************************************)
\* re.findall(pattern, t): the matched substrings
re_findall(r, t) ==
    LET groups(matches) ==
            [i \in DOMAIN matches |-> SubSeq(t, matches[i].start + 1, matches[i].end)]
    IN  groups(re_finditer(r, t))

\* re.findall(r'\w+', text.lower())
tokenize(text) == re_findall(RePlus(ReSet(WordChar)), lower(text))

\* Counter(items): each distinct item with the number of its occurrences
Counter(items) ==
    [g \in Range(items) |-> Cardinality({i \in DOMAIN items : items[i] = g})]

\* (the common keys, each counted once)
counter_and_unclipped(a, b) == [g \in DOMAIN a \cap DOMAIN b |-> 1]

\* a & b on Counters: the common keys with the smaller of the two counts
counter_and(a, b) == [g \in DOMAIN a \cap DOMAIN b |-> Min(a[g], b[g])]

\* sum(counter.values())
RECURSIVE counter_total(_)
counter_total(c) ==
    IF DOMAIN c = {} THEN 0
    ELSE LET g == CHOOSE x \in DOMAIN c : TRUE
         IN  c[g] + counter_total([x \in DOMAIN c \ {g} |-> c[x]])

\* Counter(zip(*[tokens[i:] for i in range(n)])): zip stops with the
\* shortest slice, so there are len(tokens) - n + 1 n-grams, or none
ngram_counter(tokens, n) ==
    Counter([i \in 1..Max(0, Len(tokens) - n + 1) |-> SubSeq(tokens, i, i + n - 1)])

\* get_ngrams of rouge_score, which tokenizes the text itself
rouge_get_ngrams(text, n) == ngram_counter(tokenize(text), n)

\* get_ngrams of bleu_score
bleu_get_ngrams(tokens, n) == ngram_counter(tokens, n)

\* (a table that starts again from 0 where the two tokens differ: the
\* longest common run of adjacent tokens ending at the last tokens)
lcs_length_adjacent(x, y) ==
    LET RECURSIVE dp(_, _)
        dp(i, j) ==
            IF i = 0 \/ j = 0 THEN 0
            ELSE IF x[i] = y[j] THEN dp(i - 1, j - 1) + 1
                 ELSE 0
    IN  dp(Len(x), Len(y))

\* the table of lcs_length: dp[i][j] from dp[i-1][j-1], dp[i-1][j], dp[i][j-1]
lcs_length(x, y) ==
    LET RECURSIVE dp(_, _)
        dp(i, j) ==
            IF i = 0 \/ j = 0 THEN 0
            ELSE IF x[i] = y[j] THEN dp(i - 1, j - 1) + 1
                 ELSE Max(dp(i - 1, j), dp(i, j - 1))
    IN  dp(Len(x), Len(y))

\* (the harmonic mean without its factor 2)
f1_unscaled(precision, recall) ==
    RatDiv(RatMul(precision, recall),
           RatMax(RatAdd(precision, recall), <<1, 10000>>))

\* 2 * precision * recall / max(precision + recall, 0.0001)
f1_guarded(precision, recall) ==
    RatDiv(RatMul(RatInt(2), RatMul(precision, recall)),
           RatMax(RatAdd(precision, recall), <<1, 10000>>))

\* overlap / max(count, 1)
ratio_guarded(overlap, count) == RatNorm(overlap, Max(count, 1))

rouge_score(reference, candidate) ==
    LET \* the F1 of precision overlap / max(cand_count, 1) and recall
        \* overlap / max(ref_count, 1)
        f1(overlap, cand_count, ref_count) ==
            f1_guarded(ratio_guarded(overlap, cand_count),
                       ratio_guarded(overlap, ref_count))
        \* overlap = sum((ref_ngrams & cand_ngrams).values())
        ngram_f1(ref_ngrams, cand_ngrams) ==
            f1(counter_total(counter_and(ref_ngrams, cand_ngrams)),
               counter_total(cand_ngrams), counter_total(ref_ngrams))
        scores(ref_tokens, cand_tokens) ==
            [rouge1 |-> ngram_f1(Counter(ref_tokens), Counter(cand_tokens)),
             rouge2 |-> ngram_f1(rouge_get_ngrams(reference, 2),
                                 rouge_get_ngrams(candidate, 2)),
             rougeL |-> f1(lcs_length(ref_tokens, cand_tokens),
                           Len(cand_tokens), Len(ref_tokens))]
    IN  scores(tokenize(reference), tokenize(candidate))

\* the default of max_n
DefaultMaxN == 4

\* The float bleu_score returns is 0.0, or bp * geo_mean with
\* bp = exp(log_bp) and geo_mean = exp(mean of log p over the precisions);
\* the model keeps log_bp and the precisions.  Both factors are at most 1,
\* so the product is 1.0 exactly when log_bp is 0 and every precision is 1
\* (numpy gives log(1.0) = 0.0 and exp(0.0) = 1.0 without rounding).
bleu_score(reference, candidate, max_n) ==
    LET \* overlap / total, or 0 when the candidate has no n-gram
        precision(ref_ngrams, cand_ngrams) ==
            ratio_guarded(counter_total(counter_and(ref_ngrams, cand_ngrams)),
                          counter_total(cand_ngrams))
        score(ref_tokens, cand_tokens) ==
            LET scored(precisions) ==
                    IF \E n \in 1..max_n : precisions[n] = RatInt(0)
                    THEN [zero |-> TRUE]
                    ELSE [zero |-> FALSE,
                          log_bp |->
                              IF Len(cand_tokens) > Len(ref_tokens) THEN RatInt(0)
                              ELSE RatSub(RatInt(1),
                                          RatNorm(Len(ref_tokens),
                                                  Max(Len(cand_tokens), 1))),
                          precisions |-> precisions]
            IN  IF cand_tokens = <<>> THEN [zero |-> TRUE]
                ELSE scored([n \in 1..max_n |->
                               precision(bleu_get_ngrams(ref_tokens, n),
                                         bleu_get_ngrams(cand_tokens, n))])
    IN  score(tokenize(reference), tokenize(candidate))

\* the returned float is 1.0
BleuIsOne(v) ==
    /\ ~v.zero
    /\ v.log_bp = RatInt(0)
    /\ \A n \in DOMAIN v.precisions : v.precisions[n] = RatInt(1)

(***************************************************************************)
(* SpecSelfMatch: rouge_score(T, T) and bleu_score(T, T) for every text T  *)
(* of at most MaxTextLen characters, of two letters (one in upper case)    *)
(* and the blank.                                                          *)
(***************************************************************************)
MaxTextLen == 7

MetricChars == {"a", "B", " "}

InitSelfMatch ==
    /\ pc = "ready"
    /\ call = "none"
    /\ \E T \in SeqsUpTo(MetricChars, MaxTextLen) :
           args = [reference |-> T, candidate |-> T, max_n |-> DefaultMaxN]
    /\ result = Pending
    /\ pii_table = PII_PATTERNS
    /\ locals = NoLocals

RougeScore ==
    /\ pc = "ready"
    /\ pc' = "done"
    /\ call' = "rouge_score"
    /\ result' = Returned(rouge_score(args.reference, args.candidate))
    /\ UNCHANGED <<args, pii_table, locals>>

BleuScore ==
    /\ pc = "ready"
    /\ pc' = "done"
    /\ call' = "bleu_score"
    /\ result' = Returned(bleu_score(args.reference, args.candidate, args.max_n))
    /\ UNCHANGED <<args, pii_table, locals>>

NextSelfMatch == RougeScore \/ BleuScore

SpecSelfMatch == InitSelfMatch /\ [][NextSelfMatch]_vars

RougeDone == pc = "done" /\ call = "rouge_score"

BleuDone == pc = "done" /\ call = "bleu_score"

\* the number of word tokens of t: the maximal runs of word characters
TokenCount(t) ==
    Cardinality({i \in DOMAIN t :
                    /\ t[i] \in WordChar
                    /\ (i = 1 \/ t[i - 1] \notin WordChar)})

AllOnes(r) == r.rouge1 = RatInt(1) /\ r.rouge2 = RatInt(1) /\ r.rougeL = RatInt(1)

\* C1 (as claimed): for every non-empty text T, rouge_score(T, T) is 1.0 in
\* rouge1, rouge2 and rougeL.
C1_RougeSelfNonEmpty ==
    (RougeDone /\ args.reference # <<>>) => AllOnes(result.value)

\* C1 (amended): for every text T with at least two word tokens,
\* rouge_score(T, T) is 1.0 in rouge1, rouge2 and rougeL; with exactly one
\* token rouge1 and rougeL are 1.0 and rouge2 is 0; with none all are 0.
C1_RougeSelfTwoTokens ==
    RougeDone =>
        LET k == TokenCount(args.reference)
            r == result.value
        IN  /\ k >= 2 => AllOnes(r)
            /\ k = 1 => r = [rouge1 |-> RatInt(1), rouge2 |-> RatInt(0),
                             rougeL |-> RatInt(1)]
            /\ k = 0 => r = [rouge1 |-> RatInt(0), rouge2 |-> RatInt(0),
                             rougeL |-> RatInt(0)]

\* C1 witness: a text of three tokens, one written in upper case, scored 1.0
C1_Witness ==
    /\ RougeDone
    /\ TokenCount(args.reference) = 3
    /\ args.reference # lower(args.reference)
    /\ AllOnes(result.value)

\* C2 (as claimed): for every non-empty text T, bleu_score(T, T) with
\* max_n = 4 is 1.0.
C2_BleuSelfNonEmpty ==
    (BleuDone /\ args.reference # <<>>) => BleuIsOne(result.value)

\* C2 (amended): for every text T with at least four word tokens,
\* bleu_score(T, T) with max_n = 4 is 1.0; with fewer it is 0.0.
C2_BleuSelfFourTokens ==
    BleuDone =>
        IF TokenCount(args.reference) >= args.max_n
        THEN BleuIsOne(result.value)
        ELSE result.value = [zero |-> TRUE]

\* C2 witness: a text of four tokens with a repeated token, scored 1.0
C2_Witness ==
    /\ BleuDone
    /\ TokenCount(args.reference) = 4
    /\ Cardinality(Range(tokenize(args.reference))) < 4
    /\ BleuIsOne(result.value)

(***************************************************************************)
(* core/security_checks.py: calculate_entropy and validate_encryption      *)
(*                                                                         *)
(* These two return an outcome: Returned(value) or Raised(exception).      *)
(***************************************************************************)
\* probability = count / data_len is a float, and a float has no
\* bit_length: the first byte value with a positive count raises
\* AttributeError.  A non-empty buffer always has one.
calculate_entropy(data) ==
    IF Len(data) = 0 THEN Returned(RatInt(0))
    ELSE LET byte_counts ==
                 [b \in 0..255 |-> Cardinality({i \in DOMAIN data : data[i] = b})]
         IN  IF \E b \in 0..255 : byte_counts[b] > 0
             THEN Raised("AttributeError")
             ELSE Returned(RatInt(0))

\* (the guard on the empty buffer answering True)
validate_encryption_empty_true(data) ==
    IF Len(data) = 0 THEN Returned(TRUE)
    ELSE LET entropy == calculate_entropy(data)
         IN  IF entropy.status = "raised" THEN entropy
             ELSE Returned(RatLess(<<15, 2>>, entropy.value))

\* entropy > 7.5, after the guard on the empty buffer
validate_encryption(data) ==
    IF Len(data) = 0 THEN Returned(FALSE)
    ELSE LET entropy == calculate_entropy(data)
         IN  IF entropy.status = "raised" THEN entropy
             ELSE Returned(RatLess(<<15, 2>>, entropy.value))

(***************************************************************************)
(* SpecEntropy: both functions on every buffer of at most MaxBufferLen     *)
(* bytes drawn from the lowest, the highest and a printable byte value.    *)
(***************************************************************************)
MaxBufferLen == 4

ByteSample == {0, 65, 255}

InitEntropy ==
    /\ pc = "ready"
    /\ call = "none"
    /\ \E data \in SeqsUpTo(ByteSample, MaxBufferLen) : args = [data |-> data]
    /\ result = Pending
    /\ pii_table = PII_PATTERNS
    /\ locals = NoLocals

CalculateEntropy ==
    /\ pc = "ready"
    /\ pc' = "done"
    /\ call' = "calculate_entropy"
    /\ result' = calculate_entropy(args.data)
    /\ UNCHANGED <<args, pii_table, locals>>

ValidateEncryption ==
    /\ pc = "ready"
    /\ pc' = "done"
    /\ call' = "validate_encryption"
    /\ result' = validate_encryption(args.data)
    /\ UNCHANGED <<args, pii_table, locals>>

NextEntropy == CalculateEntropy \/ ValidateEncryption

SpecEntropy == InitEntropy /\ [][NextEntropy]_vars

\* C5 (as claimed): for every byte buffer, empty or not, calculate_entropy
\* completes without raising and returns a value in the range [0, 8].
C5_EntropyReturnsInRange ==
    (pc = "done" /\ call = "calculate_entropy") =>
        /\ result.status = "returned"
        /\ ~RatLess(result.value, RatInt(0))
        /\ ~RatLess(RatInt(8), result.value)

\* C11: on the buffer of length 0, calculate_entropy returns 0.0 and
\* validate_encryption returns False, neither raising.
C11_EmptyBuffer ==
    (pc = "done" /\ args.data = <<>>) =>
        /\ call = "calculate_entropy" => result = Returned(RatInt(0))
        /\ call = "validate_encryption" => result = Returned(FALSE)

\* C11 witness: validate_encryption has answered False on the empty buffer
C11_Witness ==
    /\ pc = "done"
    /\ call = "validate_encryption"
    /\ args.data = <<>>
    /\ result = Returned(FALSE)

(***************************************************************************)
(* core/security_checks.py: validate_guardrails                            *)
(*                                                                         *)
(* A Python value of the response is named by its literal; the response    *)
(* is a function from its keys to such values.                             *)
(***************************************************************************)
PyValues == {"True", "False", "None", "0", "'yes'"}

PyBool(b) == IF b THEN "True" ELSE "False"

\* bool(v)
Truthy(v) == v \in {"True", "'yes'"}

\* a or b
py_or(a, b) == IF Truthy(a) THEN a ELSE b

\* response.get(key, default)
dict_get(response, key, default) ==
    IF key \in DOMAIN response THEN response[key] ELSE default

\* the value the loop body stores for one guardrail
guardrail_status(response, guardrail) ==
    CASE guardrail = "content_filter" ->
           py_or(dict_get(response, "content_filtered", "False"),
                 dict_get(response, "safety_check", "False"))
      [] guardrail = "rate_limit" ->
           PyBool("rate_limit" \in DOMAIN response \/ "x-rate-limit" \in DOMAIN response)
      [] guardrail = "audit_log" ->
           py_or(dict_get(response, "audit_logged", "False"),
                 PyBool(dict_get(response, "request_id", "None") # "None"))
      [] OTHER -> PyBool(guardrail \in DOMAIN response)

\* the loop over required_guardrails from entry k on; a name that comes
\* again overwrites its entry
RECURSIVE guardrails_from(_, _, _, _)
guardrails_from(response, required_guardrails, k, results) ==
    IF k > Len(required_guardrails) THEN results
    ELSE LET guardrail == required_guardrails[k]
         IN  guardrails_from(response, required_guardrails, k + 1,
                 (guardrail :> guardrail_status(response, guardrail)) @@ results)

validate_guardrails(response, required_guardrails) ==
    guardrails_from(response, required_guardrails, 1, <<>>)

(***************************************************************************)
(* SpecGuardrails: responses with at most MaxResponseKeys of the keys the  *)
(* rules read (and one they do not), lists of at most MaxGuardrails names. *)
(***************************************************************************)
MaxResponseKeys == 2

MaxGuardrails == 2

ResponseKeys ==
    {"content_filtered", "safety_check", "rate_limit", "x-rate-limit",
     "audit_logged", "request_id", "custom"}

GuardrailNames == {"content_filter", "rate_limit", "audit_log", "custom", "unknown"}

Responses ==
    UNION {[K -> PyValues] :
             K \in {S \in SUBSET ResponseKeys : Cardinality(S) <= MaxResponseKeys}}

InitGuardrails ==
    /\ pc = "ready"
    /\ call = "none"
    /\ \E response \in Responses,
          required_guardrails \in SeqsUpTo(GuardrailNames, MaxGuardrails) :
           args = [response |-> response, required_guardrails |-> required_guardrails]
    /\ result = Pending
    /\ pii_table = PII_PATTERNS
    /\ locals = NoLocals

ValidateGuardrails ==
    /\ pc = "ready"
    /\ pc' = "done"
    /\ call' = "validate_guardrails"
    /\ result' = Returned(validate_guardrails(args.response, args.required_guardrails))
    /\ UNCHANGED <<args, pii_table, locals>>

NextGuardrails == ValidateGuardrails

SpecGuardrails == InitGuardrails /\ [][NextGuardrails]_vars

\* C6 (as claimed): for every response and every list of required names the
\* result is a mapping whose keys are exactly the required names and whose
\* every value is a boolean.
C6_KeysRequiredValuesBoolean ==
    (pc = "done" /\ call = "validate_guardrails") =>
        /\ result.status = "returned"
        /\ DOMAIN result.value = Range(args.required_guardrails)
        /\ \A g \in DOMAIN result.value : result.value[g] \in {"True", "False"}

(***************************************************************************)
(* core/summarizer.py: ThreatSummarizer.summarize                          *)
(***************************************************************************)
\* text.split('. ') from 1-based position i on, cur being the piece read
\* so far: the separator is taken wherever it is met, left to right
RECURSIVE split_from(_, _, _)
split_from(text, i, cur) ==
    IF i > Len(text) THEN <<cur>>
    ELSE IF i < Len(text) /\ text[i] = "." /\ text[i + 1] = " "
         THEN <<cur>> \o split_from(text, i + 2, <<>>)
         ELSE split_from(text, i + 1, Append(cur, text[i]))

split_sentences(text) == split_from(text, 1, <<>>)

\* str.strip()
RECURSIVE strip(_)
strip(s) ==
    IF s = <<>> THEN s
    ELSE IF Head(s) \in SpaceChar THEN strip(Tail(s))
         ELSE IF s[Len(s)] \in SpaceChar THEN strip(SubSeq(s, 1, Len(s) - 1))
              ELSE s

\* round(x, 2) of a fraction x >= 0, ties to the even hundredth, as a
\* fraction.  A tie needs a denominator that is a multiple of 8 below 200,
\* and those fractions are floats without rounding error.
round2(x) ==
    LET scaled == 100 * x[1]
        q == scaled \div x[2]
        rem == scaled % x[2]
        up == 2 * rem > x[2] \/ (2 * rem = x[2] /\ q % 2 = 1)
    IN  RatNorm(IF up THEN q + 1 ELSE q, 100)

\* len(summary) + len(sentence) <= max_length
sentence_fits(summary, sentence, max_length) ==
    Len(summary) + Len(sentence) <= max_length

\* the loop over sentences from entry k on, left at the first sentence
\* that does not fit
RECURSIVE summary_from(_, _, _, _)
summary_from(sentences, k, summary, max_length) ==
    IF k > Len(sentences) THEN summary
    ELSE IF sentence_fits(summary, sentences[k], max_length)
         THEN summary_from(sentences, k + 1,
                           summary \o sentences[k] \o <<".", " ">>, max_length)
         ELSE summary

\* an outcome: the division by len(text) raises for the empty text
summarize(text, max_length) ==
    LET sentences == split_sentences(text)
        summary == summary_from(sentences, 1, <<>>, max_length)
    IN  IF Len(text) = 0 THEN Raised("ZeroDivisionError")
        ELSE Returned([original_length |-> Len(text),
                       summary |-> strip(summary),
                       summary_length |-> Len(summary),
                       compression_ratio |-> round2(RatNorm(Len(summary), Len(text)))])

(***************************************************************************)
(* SpecSummarizer: summarize on every text of at most MaxReportLen         *)
(* characters of a letter, the full stop and the blank, with max_length    *)
(* from 0 to MaxMaxLength.                                                 *)
(***************************************************************************)
MaxReportLen == 6

MaxMaxLength == 6

ReportChars == {"a", ".", " "}

InitSummarizer ==
    /\ pc = "ready"
    /\ call = "none"
    /\ \E text \in SeqsUpTo(ReportChars, MaxReportLen), max_length \in 0..MaxMaxLength :
           args = [text |-> text, max_length |-> max_length]
    /\ result = Pending
    /\ pii_table = PII_PATTERNS
    /\ locals = NoLocals

Summarize ==
    /\ pc = "ready"
    /\ pc' = "done"
    /\ call' = "summarize"
    /\ result' = summarize(args.text, args.max_length)
    /\ UNCHANGED <<args, pii_table, locals>>

NextSummarizer == Summarize

SpecSummarizer == InitSummarizer /\ [][NextSummarizer]_vars

\* C9 (as claimed): whenever summarize returns, the summary_length it
\* reports is at most max_length.
C9_SummaryLengthWithinMax ==
    (pc = "done" /\ call = "summarize" /\ result.status = "returned") =>
        result.value.summary_length <= args.max_length

(***************************************************************************)
(* core/metrics.py: token_overlap_similarity, and the three text metrics   *)
(* on pairs of different texts                                             *)
(***************************************************************************)
\* (the overlap measured against the first text only)
token_overlap_of_first(text1, text2) ==
    LET overlap(tokens1, tokens2) ==
            IF tokens1 = {} \/ tokens2 = {} THEN RatInt(0)
            ELSE RatNorm(Cardinality(tokens1 \cap tokens2), Cardinality(tokens1))
    IN  overlap(Range(tokenize(text1)), Range(tokenize(text2)))

\* (two texts without tokens counted as identical)
token_overlap_empty_equal(text1, text2) ==
    LET jaccard(tokens1, tokens2) ==
            IF tokens1 \cup tokens2 = {} THEN RatInt(1)
            ELSE RatNorm(Cardinality(tokens1 \cap tokens2),
                         Cardinality(tokens1 \cup tokens2))
    IN  jaccard(Range(tokenize(text1)), Range(tokenize(text2)))

\* tokens1, tokens2 = set(re.findall(r'\w+', text.lower())); 0.0 if either
\* is empty, else intersection / union if union > 0 else 0.0
token_overlap_similarity(text1, text2) ==
    LET jaccard(tokens1, tokens2) ==
            IF tokens1 = {} \/ tokens2 = {} THEN RatInt(0)
            ELSE IF Cardinality(tokens1 \cup tokens2) > 0
                 THEN RatNorm(Cardinality(tokens1 \cap tokens2),
                              Cardinality(tokens1 \cup tokens2))
                 ELSE RatInt(0)
    IN  jaccard(Range(tokenize(text1)), Range(tokenize(text2)))

(***************************************************************************)
(* SpecTextPairs: the three metrics on every pair of texts of at most      *)
(* MaxPairLen characters: two letters, one of them upper case, and a       *)
(* punctuation mark that separates tokens.                                 *)
(***************************************************************************)
MaxPairLen == 3

PairChars == {"a", "B", "."}

InitTextPairs ==
    /\ pc = "ready"
    /\ call = "none"
    /\ \E reference \in SeqsUpTo(PairChars, MaxPairLen),
          candidate \in SeqsUpTo(PairChars, MaxPairLen) :
           args = [reference |-> reference, candidate |-> candidate,
                   max_n |-> DefaultMaxN]
    /\ result = Pending
    /\ pii_table = PII_PATTERNS
    /\ locals = NoLocals

TokenOverlapPair ==
    /\ pc = "ready"
    /\ pc' = "done"
    /\ call' = "token_overlap_similarity"
    /\ result' = Returned(token_overlap_similarity(args.reference, args.candidate))
    /\ UNCHANGED <<args, pii_table, locals>>

RougePair ==
    /\ pc = "ready"
    /\ pc' = "done"
    /\ call' = "rouge_score"
    /\ result' = Returned(rouge_score(args.reference, args.candidate))
    /\ UNCHANGED <<args, pii_table, locals>>

BleuPair ==
    /\ pc = "ready"
    /\ pc' = "done"
    /\ call' = "bleu_score"
    /\ result' = Returned(bleu_score(args.reference, args.candidate, args.max_n))
    /\ UNCHANGED <<args, pii_table, locals>>

NextTextPairs == TokenOverlapPair \/ RougePair \/ BleuPair

SpecTextPairs == InitTextPairs /\ [][NextTextPairs]_vars

\* C12: token_overlap_similarity is symmetric: the value returned for
\* (A, B) is the value of token_overlap_similarity(B, A).
C12_OverlapSymmetric ==
    (pc = "done" /\ call = "token_overlap_similarity") =>
        result = Returned(token_overlap_similarity(args.candidate, args.reference))

\* C12 witness: two texts with different token sets that share a token
C12_Witness ==
    /\ pc = "done"
    /\ call = "token_overlap_similarity"
    /\ Range(tokenize(args.reference)) # Range(tokenize(args.candidate))
    /\ result = Returned(<<1, 2>>)

\* C14: when the candidate holds no word token, rouge_score returns 0 for
\* rouge1, rouge2 and rougeL, bleu_score returns 0.0 and
\* token_overlap_similarity returns 0.0, whatever the reference.
C14_NoCandidateTokenScoresZero ==
    (pc = "done" /\ tokenize(args.candidate) = <<>>) =>
        /\ result.status = "returned"
        /\ call = "rouge_score" =>
               result.value = [rouge1 |-> RatInt(0), rouge2 |-> RatInt(0),
                               rougeL |-> RatInt(0)]
        /\ call = "bleu_score" => result.value = [zero |-> TRUE]
        /\ call = "token_overlap_similarity" => result.value = RatInt(0)

\* C14 witness: rouge_score on a punctuation-only candidate against a
\* reference that has tokens
C14_Witness ==
    /\ pc = "done"
    /\ call = "rouge_score"
    /\ args.candidate = <<".">>
    /\ Len(tokenize(args.reference)) = 2
    /\ result.value.rouge1 = RatInt(0)

(***************************************************************************)
(* core/metrics.py: compute_classification_metrics                         *)
(*                                                                         *)
(* The four scores are those of sklearn.metrics, called with               *)
(* zero_division=0: per-label counts over the labels that occur in either  *)
(* sequence, averaged as the mode says.                                    *)
(***************************************************************************)
\* (zero_division=1: a score with denominator 0 is 1)
zero_division_one(numerator, denominator) ==
    IF denominator = 0 THEN RatInt(1) ELSE RatNorm(numerator, denominator)

\* zero_division=0: a score with denominator 0 is 0
zero_division(numerator, denominator) ==
    IF denominator = 0 THEN RatInt(0) ELSE RatNorm(numerator, denominator)

\* the sum of the values of a function into the fractions
RECURSIVE RatTotal(_)
RatTotal(f) ==
    IF DOMAIN f = {} THEN RatInt(0)
    ELSE LET g == CHOOSE x \in DOMAIN f : TRUE
         IN  RatAdd(f[g], RatTotal([x \in DOMAIN f \ {g} |-> f[x]]))

\* the labels present in y_true or y_pred
unique_labels(y_true, y_pred) == Range(y_true) \cup Range(y_pred)

\* positions predicted as label and truly of it
true_positives(y_true, y_pred, label) ==
    Cardinality({i \in DOMAIN y_true : y_true[i] = label /\ y_pred[i] = label})

\* positions showing label in a sequence
label_count(y, label) == Cardinality({i \in DOMAIN y : y[i] = label})

\* the score of one label; kind is "precision", "recall" or "f1"
label_score(y_true, y_pred, label, kind) ==
    CASE kind = "precision" ->
           zero_division(true_positives(y_true, y_pred, label),
                         label_count(y_pred, label))
      [] kind = "recall" ->
           zero_division(true_positives(y_true, y_pred, label),
                         label_count(y_true, label))
      [] kind = "f1" ->
           zero_division(2 * true_positives(y_true, y_pred, label),
                         label_count(y_pred, label) + label_count(y_true, label))

\* precision_score, recall_score, f1_score with average = micro, macro or
\* weighted
averaged_score(y_true, y_pred, average, kind) ==
    LET over(labels) ==
            CASE average = "micro" ->
                   \* counts summed over the labels before dividing; every
                   \* position is predicted as one label and truly of one
                   zero_division(
                       Cardinality({i \in DOMAIN y_true : y_true[i] = y_pred[i]}),
                       Len(y_true))
              [] average = "macro" ->
                   RatDiv(RatTotal([l \in labels |->
                                      label_score(y_true, y_pred, l, kind)]),
                          RatInt(Cardinality(labels)))
              [] average = "weighted" ->
                   \* each label weighted by its number of true members
                   RatDiv(RatTotal([l \in labels |->
                                      RatMul(RatInt(label_count(y_true, l)),
                                             label_score(y_true, y_pred, l, kind))]),
                          RatInt(Len(y_true)))
    IN  over(unique_labels(y_true, y_pred))

\* accuracy_score: the fraction of positions where the sequences agree
accuracy_score(y_true, y_pred) ==
    RatNorm(Cardinality({i \in DOMAIN y_true : y_true[i] = y_pred[i]}), Len(y_true))

compute_classification_metrics(y_true, y_pred, average) ==
    [precision |-> averaged_score(y_true, y_pred, average, "precision"),
     recall |-> averaged_score(y_true, y_pred, average, "recall"),
     f1_score |-> averaged_score(y_true, y_pred, average, "f1"),
     accuracy |-> accuracy_score(y_true, y_pred)]

(***************************************************************************)
(* SpecClassification: every pair of label sequences of the same length,   *)
(* from 1 to MaxLabelLen, over three labels, under each averaging mode.    *)
(***************************************************************************)
MaxLabelLen == 4

Labels == {0, 1, 2}

AverageModes == {"micro", "macro", "weighted"}

InitClassification ==
    /\ pc = "ready"
    /\ call = "none"
    /\ \E n \in 1..MaxLabelLen, average \in AverageModes :
         \E y_true \in [1..n -> Labels], y_pred \in [1..n -> Labels] :
           args = [y_true |-> y_true, y_pred |-> y_pred, average |-> average]
    /\ result = Pending
    /\ pii_table = PII_PATTERNS
    /\ locals = NoLocals

ComputeClassificationMetrics ==
    /\ pc = "ready"
    /\ pc' = "done"
    /\ call' = "compute_classification_metrics"
    /\ result' = Returned(compute_classification_metrics(
                              args.y_true, args.y_pred, args.average))
    /\ UNCHANGED <<args, pii_table, locals>>

NextClassification == ComputeClassificationMetrics

SpecClassification == InitClassification /\ [][NextClassification]_vars

\* C13: for equal-length non-empty label sequences and each averaging mode,
\* precision, recall, f1 and accuracy are returned within [0, 1]; a label
\* with no predicted (no true) member adds 0 to the macro precision
\* (recall), which is therefore the sum over the other labels divided by
\* the number of labels; accuracy is the number of agreeing positions over
\* the length.
C13_ScoresInUnitRange ==
    (pc = "done" /\ call = "compute_classification_metrics") =>
        LET yt == args.y_true
            yp == args.y_pred
            v == result.value
            labels == Range(yt) \cup Range(yp)
            agree == {i \in DOMAIN yt : yt[i] = yp[i]}
            hits(l) == {i \in agree : yt[i] = l}
            members(y, l) == {i \in DOMAIN y : y[i] = l}
            share(y, l) == RatNorm(Cardinality(hits(l)), Cardinality(members(y, l)))
        IN  /\ result.status = "returned"
            /\ \A k \in {"precision", "recall", "f1_score", "accuracy"} :
                   /\ ~RatLess(v[k], RatInt(0))
                   /\ ~RatLess(RatInt(1), v[k])
            /\ v.accuracy[1] * Len(yt) = Cardinality(agree) * v.accuracy[2]
            /\ args.average = "macro" =>
                 /\ RatMul(v.precision, RatInt(Cardinality(labels)))
                      = RatTotal([l \in {x \in labels : members(yp, x) # {}} |->
                                    share(yp, l)])
                 /\ RatMul(v.recall, RatInt(Cardinality(labels)))
                      = RatTotal([l \in {x \in labels : members(yt, x) # {}} |->
                                    share(yt, l)])

\* C13 witness: a macro average with accuracy 0.75 (as [1,0,1,1] against
\* [1,0,0,1] has) over sequences with a true label that is never predicted
C13_Witness ==
    /\ pc = "done"
    /\ call = "compute_classification_metrics"
    /\ args.average = "macro"
    /\ \E l \in Range(args.y_true) : l \notin Range(args.y_pred)
    /\ result.value.accuracy = <<3, 4>>

(***************************************************************************)
(* core/metrics.py: embedding_distance                                     *)
(*                                                                         *)
(* The embeddings are integer vectors of one dimension.  Square roots are  *)
(* not taken: the cosine distance is kept as the dot product and the two   *)
(* squared norms it is computed from, the euclidean distance as its        *)
(* square.                                                                 *)
(***************************************************************************)
\* np.sum over the components
dot_product(u, v) == SumSeq([i \in DOMAIN u |-> u[i] * v[i]])

\* the values of the three supported metrics
distance_value(embedding1, embedding2, metric) ==
    CASE metric = "cosine" ->
           \* 1 - cosine_similarity([embedding1], [embedding2])[0][0]
           [one_minus_cosine_of |->
               [dot |-> dot_product(embedding1, embedding2),
                norm1_squared |-> dot_product(embedding1, embedding1),
                norm2_squared |-> dot_product(embedding2, embedding2)]]
      [] metric = "euclidean" ->
           \* float(np.linalg.norm(embedding1 - embedding2))
           [sqrt_of |-> SumSeq([i \in DOMAIN embedding1 |->
                                  (embedding1[i] - embedding2[i])
                                  * (embedding1[i] - embedding2[i])])]
      [] metric = "manhattan" ->
           \* float(np.sum(np.abs(embedding1 - embedding2)))
           [value |-> SumSeq([i \in DOMAIN embedding1 |->
                                Abs(embedding1[i] - embedding2[i])])]

\* (an unknown name treated as the default metric)
embedding_distance_defaulting(embedding1, embedding2, metric) ==
    IF metric \in {"cosine", "euclidean", "manhattan"}
    THEN Returned(distance_value(embedding1, embedding2, metric))
    ELSE Returned(distance_value(embedding1, embedding2, "cosine"))

\* the if / elif chain on metric, ending in raise ValueError
embedding_distance(embedding1, embedding2, metric) ==
    IF metric = "cosine"
    THEN Returned(distance_value(embedding1, embedding2, "cosine"))
    ELSE IF metric = "euclidean"
    THEN Returned(distance_value(embedding1, embedding2, "euclidean"))
    ELSE IF metric = "manhattan"
    THEN Returned(distance_value(embedding1, embedding2, "manhattan"))
    ELSE Raised("ValueError")

(***************************************************************************)
(* SpecEmbedding: pairs of vectors of the same dimension, 1 to             *)
(* MaxDimension, with components -1, 0, 1, and metric names that are       *)
(* supported, unsupported, empty, or a supported name in another case.     *)
(***************************************************************************)
MaxDimension == 2

MetricNames == {"cosine", "euclidean", "manhattan", "chebyshev", "Cosine", ""}

InitEmbedding ==
    /\ pc = "ready"
    /\ call = "none"
    /\ \E n \in 1..MaxDimension, metric \in MetricNames :
         \E embedding1 \in [1..n -> {-1, 0, 1}], embedding2 \in [1..n -> {-1, 0, 1}] :
           args = [embedding1 |-> embedding1, embedding2 |-> embedding2,
                   metric |-> metric]
    /\ result = Pending
    /\ pii_table = PII_PATTERNS
    /\ locals = NoLocals

EmbeddingDistance ==
    /\ pc = "ready"
    /\ pc' = "done"
    /\ call' = "embedding_distance"
    /\ result' = embedding_distance(args.embedding1, args.embedding2, args.metric)
    /\ UNCHANGED <<args, pii_table, locals>>

NextEmbedding == EmbeddingDistance

SpecEmbedding == InitEmbedding /\ [][NextEmbedding]_vars

\* C15: embedding_distance raises ValueError for every metric name other
\* than 'cosine', 'euclidean' and 'manhattan', and returns a distance for
\* each of those three names.
C15_UnknownMetricRaises ==
    (pc = "done" /\ call = "embedding_distance") =>
        IF args.metric \in {"cosine", "euclidean", "manhattan"}
        THEN result.status = "returned"
        ELSE result = Raised("ValueError")

\* C15 witness: a supported name spelled with a capital letter has raised
C15_Witness ==
    /\ pc = "done"
    /\ call = "embedding_distance"
    /\ args.metric = "Cosine"
    /\ result = Raised("ValueError")

(***************************************************************************)
(* core/guardrails.py: LLMGuardrails.validate_input                        *)
(*                                                                         *)
(* The patterns are written as in the code; re.IGNORECASE lets a letter    *)
(* of a pattern match either of its two cases.  Only whether a pattern is  *)
(* found is used, so the lazy .*? stands as .* here: the two are found in  *)
(* the same texts.                                                         *)
(***************************************************************************)
\* (the flag left out: the pattern as written)
CaseSensitive(r) == r

\* re.IGNORECASE: every character class holds both cases of its letters
RECURSIVE IgnoreCase(_)
IgnoreCase(r) ==
    CASE r.op = "set" ->
           ReSet({lower_char(c) : c \in r.chars} \cup {upper_char(c) : c \in r.chars})
      [] r.op = "cat" -> ReCat([i \in DOMAIN r.parts |-> IgnoreCase(r.parts[i])])
      [] r.op = "alt" -> ReAlt([i \in DOMAIN r.alts |-> IgnoreCase(r.alts[i])])
      [] r.op = "rep" -> ReRep(IgnoreCase(r.r), r.min, r.max)
      [] OTHER -> r

\* ignore\s+(previous|all)\s+instructions, disregard\s+all\s+rules,
\* reveal\s+system\s+prompt
prompt_patterns ==
    << ReCat(<<ReLit(<<"i", "g", "n", "o", "r", "e">>), ReSpaces,
               ReAlt(<<ReLit(<<"p", "r", "e", "v", "i", "o", "u", "s">>), ReLit(<<"a", "l", "l">>)>>), ReSpaces,
               ReLit(<<"i", "n", "s", "t", "r", "u", "c", "t", "i", "o", "n", "s">>)>>),
       ReCat(<<ReLit(<<"d", "i", "s", "r", "e", "g", "a", "r", "d">>), ReSpaces, ReLit(<<"a", "l", "l">>), ReSpaces, ReLit(<<"r", "u", "l", "e", "s">>)>>),
       ReCat(<<ReLit(<<"r", "e", "v", "e", "a", "l">>), ReSpaces, ReLit(<<"s", "y", "s", "t", "e", "m">>), ReSpaces, ReLit(<<"p", "r", "o", "m", "p", "t">>)>>) >>

\* <script.*?>, javascript:, onerror=
code_patterns ==
    << ReCat(<<ReLit(<<"<", "s", "c", "r", "i", "p", "t">>), ReStar(ReAny), ReLit(<<">">>)>>),
       ReLit(<<"j", "a", "v", "a", "s", "c", "r", "i", "p", "t", ":">>),
       ReLit(<<"o", "n", "e", "r", "r", "o", "r", "=">>) >>

\* '.*OR.*=, DROP\s+TABLE, ;\s*DELETE
sql_patterns ==
    << ReCat(<<ReLit(<<"'">>), ReStar(ReAny), ReLit(<<"O", "R">>), ReStar(ReAny), ReLit(<<"=">>)>>),
       ReCat(<<ReLit(<<"D", "R", "O", "P">>), ReSpaces, ReLit(<<"T", "A", "B", "L", "E">>)>>),
       ReCat(<<ReLit(<<";">>), ReStar(ReSet(SpaceChar)), ReLit(<<"D", "E", "L", "E", "T", "E">>)>>) >>

\* one loop of validate_input: the family's tag is appended once, at the
\* first of its patterns that re.search finds
family_threat(patterns, text, tag) ==
    IF \E k \in DOMAIN patterns : re_search(IgnoreCase(patterns[k]), text)
    THEN <<tag>> ELSE <<>>

validate_input(text) ==
    LET verdict(threats) ==
            [is_safe |-> Len(threats) = 0, threats_detected |-> threats]
    IN  verdict(family_threat(prompt_patterns, text, "prompt_injection")
                \o family_threat(code_patterns, text, "code_injection")
                \o family_threat(sql_patterns, text, "sql_injection"))

(***************************************************************************)
(* SpecValidateInput: validate_input on texts of at most                   *)
(* MaxInputFragments fragments: phrases of each family in several cases    *)
(* and spacings, their pieces, a line break, and a harmless question.      *)
(***************************************************************************)
MaxInputFragments == 2

InputFragments ==
    { <<"I", "g", "n", "o", "r", "e", " ", "p", "r", "e", "v", "i", "o", "u", "s", " ", "i", "n", "s", "t", "r", "u", "c", "t", "i", "o", "n", "s">>,
      <<"i", "g", "n", "o", "r", "e", "\t", "A", "L", "L", " ", " ", "i", "n", "s", "t", "r", "u", "c", "t", "i", "o", "n", "s">>,
      <<"i", "g", "n", "o", "r", "e">>,
      <<" ", "a", "l", "l", " ", "i", "n", "s", "t", "r", "u", "c", "t", "i", "o", "n", "s">>,
      <<"D", "i", "s", "r", "e", "g", "a", "r", "d", " ", "a", "l", "l", " ", "r", "u", "l", "e", "s">>,
      <<"r", "e", "v", "e", "a", "l", " ", "s", "y", "s", "t", "e", "m", " ", "p", "r", "o", "m", "p", "t">>,
      <<"r", "e", "v", "e", "a", "l", " ", " ", "S", "y", "s", "t", "e", "m">>,
      <<" ", "p", "r", "o", "m", "p", "t">>,
      <<"<", "s", "c", "r", "i", "p", "t", ">">>,
      <<"<", "S", "C", "R", "I", "P", "T", " ", "s", "r", "c", "=", "x">>,
      <<">">>,
      <<"J", "a", "v", "a", "S", "c", "r", "i", "p", "t", ":">>,
      <<"o", "n", "e", "r", "r", "o", "r", "=">>,
      <<"o", "n", "E", "r", "r", "o", "r", " ", "=">>,
      <<"'", " ", "o", "r", " ", "1", "=", "1">>,
      <<"'">>,
      <<" ", "O", "R", " ">>,
      <<"=">>,
      <<"D", "r", "o", "p", " ", " ", "T", "a", "b", "l", "e">>,
      <<"d", "r", "o", "p">>,
      <<";", " ", " ", "d", "e", "l", "e", "t", "e">>,
      <<";">>,
      <<"D", "E", "L", "E", "T", "E">>,
      <<"\n">>,
      <<" ">>,
      <<"W", "h", "a", "t", " ", "i", "s", " ", "t", "h", "e", " ", "w", "e", "a", "t", "h", "e", "r", " ", "t", "o", "d", "a", "y", "?">> }

InitValidateInput ==
    /\ pc = "ready"
    /\ call = "none"
    /\ \E fs \in SeqsUpTo(InputFragments, MaxInputFragments) :
           args = [text |-> Flatten(fs)]
    /\ result = Pending
    /\ pii_table = PII_PATTERNS
    /\ locals = NoLocals

ValidateInput ==
    /\ pc = "ready"
    /\ pc' = "done"
    /\ call' = "validate_input"
    /\ result' = Returned(validate_input(args.text))
    /\ UNCHANGED <<args, pii_table, locals>>

NextValidateInput == ValidateInput

SpecValidateInput == InitValidateInput /\ [][NextValidateInput]_vars

\* C17: is_safe is True exactly when threats_detected is empty, and
\* threats_detected lists, in the order prompt_injection, code_injection,
\* sql_injection and each at most once, the families of which some pattern
\* matches the text without regard to case (the lower-case patterns are
\* looked for in the lower-cased text, the upper-case ones in the
\* upper-cased text).
C17_ThreatsPerFamilyInOrder ==
    (pc = "done" /\ call = "validate_input") =>
        LET found(patterns, t) == \E k \in DOMAIN patterns : re_search(patterns[k], t)
            matching(tag) ==
                CASE tag = "prompt_injection" -> found(prompt_patterns, lower(args.text))
                  [] tag = "code_injection" -> found(code_patterns, lower(args.text))
                  [] tag = "sql_injection" -> found(sql_patterns, upper(args.text))
        IN  /\ result.value.is_safe = (result.value.threats_detected = <<>>)
            /\ result.value.threats_detected
                 = SelectSeq(<<"prompt_injection", "code_injection", "sql_injection">>,
                             matching)

\* C17 witness: a text of two families, reported in the fixed order
C17_Witness ==
    /\ pc = "done"
    /\ call = "validate_input"
    /\ result.value.threats_detected
         = <<"prompt_injection", "sql_injection">>
    /\ ~result.value.is_safe

(***************************************************************************)
(* core/threat_classifier.py: ThreatClassifier.classify                    *)
(***************************************************************************)
\* word in text: the characters of word stand somewhere in text, in a row
contains_substring(text, word) ==
    \E i \in 0..(Len(text) - Len(word)) : SubSeq(text, i + 1, i + Len(word)) = word

phishing_words ==
    <<<<"c", "l", "i", "c", "k", " ", "h", "e", "r", "e">>,
       <<"c", "l", "a", "i", "m", " ", "p", "r", "i", "z", "e">>,
       <<"u", "r", "g", "e", "n", "t">>,
       <<"v", "e", "r", "i", "f", "y", " ", "a", "c", "c", "o", "u", "n", "t">>>>

malware_words ==
    <<<<"d", "o", "w", "n", "l", "o", "a", "d">>,
       <<"a", "t", "t", "a", "c", "h", "m", "e", "n", "t">>,
       <<"i", "n", "s", "t", "a", "l", "l">>,
       <<"e", "x", "e">>>>

spam_words ==
    <<<<"b", "u", "y", " ", "n", "o", "w">>,
       <<"l", "i", "m", "i", "t", "e", "d", " ", "o", "f", "f", "e", "r">>,
       <<"a", "c", "t", " ", "f", "a", "s", "t">>>>

\* any(word in text_lower for word in words): the label and its confidence
\* are appended, or nothing is
category(words, text_lower, entry) ==
    IF \E k \in DOMAIN words : contains_substring(text_lower, words[k])
    THEN <<entry>> ELSE <<>>

\* the three checks on text_lower, in order, and the returned record
classify_lowered(text, text_lower) ==
    LET report(found) ==
            [text |-> text,
             labels |-> IF found # <<>> THEN [i \in DOMAIN found |-> found[i].label]
                        ELSE <<"unknown">>,
             confidence |-> IF found # <<>>
                            THEN [i \in DOMAIN found |-> found[i].confidence]
                            ELSE <<RatNorm(3, 10)>>,
             is_threat |-> Len(found) > 0]
    IN  report(category(phishing_words, text_lower,
                        [label |-> "phishing", confidence |-> RatNorm(92, 100)])
               \o category(malware_words, text_lower,
                           [label |-> "malware", confidence |-> RatNorm(88, 100)])
               \o category(spam_words, text_lower,
                           [label |-> "spam", confidence |-> RatNorm(75, 100)]))

\* (the keywords looked for in the text as given)
classify_cased(text) == classify_lowered(text, text)

\* text_lower = text.lower()
classify(text) == classify_lowered(text, lower(text))

(***************************************************************************)
(* SpecClassify: classify on texts of at most MaxClassifyFragments         *)
(* fragments: keywords of each category in several cases, pieces of        *)
(* keywords, and a harmless word.                                          *)
(***************************************************************************)
MaxClassifyFragments == 2

ClassifyFragments ==
    { <<"C", "l", "i", "c", "k", " ", "h", "e", "r", "e">>,
      <<"c", "l", "a", "i", "m", " ", "p", "r", "i", "z", "e">>,
      <<"U", "R", "G", "E", "N", "T">>,
      <<"V", "e", "r", "i", "f", "y", " ", "A", "c", "c", "o", "u", "n", "t">>,
      <<"D", "o", "w", "n", "l", "o", "a", "d">>,
      <<"a", "t", "t", "a", "c", "h", "m", "e", "n", "t">>,
      <<"I", "N", "S", "T", "A", "L", "L">>,
      <<"e", "x", "e">>,
      <<"B", "u", "y", " ", "n", "o", "w">>,
      <<"l", "i", "m", "i", "t", "e", "d", " ", "o", "f", "f", "e", "r">>,
      <<"A", "c", "t", " ", "F", "a", "s", "t">>,
      <<" ">>,
      <<"c", "l", "i", "c", "k">>,
      <<" ", "h", "e", "r", "e">>,
      <<"e">>,
      <<"x">>,
      <<"h", "e", "l", "l", "o">>,
      <<"b", "u", "y">>,
      <<"n", "o", "w">> }

InitClassify ==
    /\ pc = "ready"
    /\ call = "none"
    /\ \E fs \in SeqsUpTo(ClassifyFragments, MaxClassifyFragments) :
           args = [text |-> Flatten(fs)]
    /\ result = Pending
    /\ pii_table = PII_PATTERNS
    /\ locals = NoLocals

Classify ==
    /\ pc = "ready"
    /\ pc' = "done"
    /\ call' = "classify"
    /\ result' = Returned(classify(args.text))
    /\ UNCHANGED <<args, pii_table, locals>>

NextClassify == Classify

SpecClassify == InitClassify /\ [][NextClassify]_vars

\* C18: labels and confidence are non-empty lists of equal length;
\* is_threat is True exactly when labels differs from ['unknown']; and when
\* the text holds a phishing keyword in any letter case (the upper-cased
\* keyword stands in the upper-cased text), 'phishing' is the first label
\* and confidence[0] is at least 0.85.
C18_ClassifyShape ==
    (pc = "done" /\ call = "classify") =>
        LET v == result.value
        IN  /\ v.labels # <<>>
            /\ Len(v.labels) = Len(v.confidence)
            /\ v.is_threat = (v.labels # <<"unknown">>)
            /\ (\E k \in DOMAIN phishing_words :
                    contains_substring(upper(args.text), upper(phishing_words[k])))
                 => /\ v.labels[1] = "phishing"
                    /\ ~RatLess(v.confidence[1], RatNorm(85, 100))

\* C18 witness: an upper-case phishing keyword followed by a malware one
C18_Witness ==
    /\ pc = "done"
    /\ call = "classify"
    /\ contains_substring(args.text, <<"U", "R", "G", "E", "N", "T">>)
    /\ result.value.labels = <<"phishing", "malware">>
    /\ result.value.is_threat

(***************************************************************************)
(* core/helpers.py: retry_with_backoff                                     *)
(*                                                                         *)
(* The wrapper runs in steps: the head of the for loop, the call of func   *)
(* in the try block, the sleep of the except block and the raise after     *)
(* the loop.  func is an argument: it is given by what each of its         *)
(* successive calls does.                                                  *)
(***************************************************************************)
\* What one call of func can do: return a value, raise an Exception, or
\* raise a BaseException that is no Exception (KeyboardInterrupt, SystemExit).
FuncBehaviours == {"returns", "raises", "exits"}

\* func(*args, **kwargs), called for the k-th time
func_call(func, k) ==
    CASE func[k] = "returns" -> Returned(<<"value", k>>)
      [] func[k] = "raises" -> Raised(<<"Exception", k>>)
      [] OTHER -> Raised(<<"BaseException", k>>)

\* last_exception = None
None == <<"None", 0>>

\* except Exception as e
caught(outcome) ==
    outcome.status = "raised" /\ outcome.exception[1] = "Exception"

\* for attempt in range(max_retries + 1): is there an attempt left
in_range(range_next, max_retries) == range_next < max_retries + 1

MaxRetries == 3

InitialDelays == {-1, 1}

\* How many times the caller invokes the wrapper, one invocation after
\* the other.
MaxInvocations == 2

\* The number of the invocation the wrapper is in (0 before the first).
Invocation == IF locals = NoLocals THEN 0 ELSE locals.invocation

InitRetry ==
    /\ pc = "ready"
    /\ call = "none"
    /\ \E max_retries \in -1..MaxRetries, initial_delay \in InitialDelays :
         \E func \in [1..(max_retries + 1) -> FuncBehaviours] :
           args = [func |-> func, max_retries |-> max_retries,
                   initial_delay |-> initial_delay]
    /\ result = Pending
    /\ pii_table = PII_PATTERNS
    /\ locals = NoLocals

\* A wrapper whose delay lives in the closure: an invocation goes on from
\* the delay the one before it reached.
WrapperSharedDelay ==
    /\ pc \in {"ready", "done"}
    /\ Invocation < MaxInvocations
    /\ pc' = "for"
    /\ call' = "wrapper"
    /\ result' = Pending
    /\ locals' = [delay |-> IF locals = NoLocals THEN args.initial_delay
                            ELSE locals.delay,
                  last_exception |-> None,
                  range_next |-> 0, attempt |-> "unbound", calls |-> <<>>,
                  sleeps |-> <<>>, invocation |-> Invocation + 1]
    /\ UNCHANGED <<args, pii_table>>

\* wrapper(*args, **kwargs) is entered, for the first time or again after
\* an invocation that is over: delay = initial_delay, last_exception = None,
\* and the range of the for loop is built.  calls records the outcome of
\* every call of func made so far in this invocation, sleeps how long each
\* time.sleep of this invocation lasted and after how many calls it came.
Wrapper ==
    /\ pc \in {"ready", "done"}
    /\ Invocation < MaxInvocations
    /\ pc' = "for"
    /\ call' = "wrapper"
    /\ result' = Pending
    /\ locals' = [delay |-> args.initial_delay, last_exception |-> None,
                  range_next |-> 0, attempt |-> "unbound", calls |-> <<>>,
                  sleeps |-> <<>>, invocation |-> Invocation + 1]
    /\ UNCHANGED <<args, pii_table>>

\* for attempt in range(max_retries + 1)
ForAttempt ==
    /\ pc = "for"
    /\ IF in_range(locals.range_next, args.max_retries)
         THEN /\ pc' = "try"
              /\ locals' = [locals EXCEPT !.attempt = locals.range_next,
                                          !.range_next = @ + 1]
         ELSE /\ pc' = "raise"
              /\ UNCHANGED locals
    /\ UNCHANGED <<call, args, result, pii_table>>

\* A wrapper that keeps the exception of the first failed call.
TryFuncFirstError ==
    /\ pc = "try"
    /\ LET outcome == func_call(args.func, Len(locals.calls) + 1)
       IN  IF caught(outcome)
             THEN /\ locals' = [locals EXCEPT
                                  !.calls = Append(@, outcome),
                                  !.last_exception =
                                      IF @ = None THEN outcome.exception ELSE @]
                  /\ pc' = IF locals.attempt < args.max_retries
                             THEN "sleep" ELSE "for"
                  /\ UNCHANGED result
             ELSE /\ locals' = [locals EXCEPT !.calls = Append(@, outcome)]
                  /\ pc' = "done"
                  /\ result' = outcome
    /\ UNCHANGED <<call, args, pii_table>>

\* try: return func(*args, **kwargs)
\* except Exception as e: last_exception = e; if attempt < max_retries: ...
\* An exception that is no Exception leaves the wrapper at once.
TryFunc ==
    /\ pc = "try"
    /\ LET outcome == func_call(args.func, Len(locals.calls) + 1)
       IN  IF caught(outcome)
             THEN /\ locals' = [locals EXCEPT
                                  !.calls = Append(@, outcome),
                                  !.last_exception = outcome.exception]
                  /\ pc' = IF locals.attempt < args.max_retries
                             THEN "sleep" ELSE "for"
                  /\ UNCHANGED result
             ELSE /\ locals' = [locals EXCEPT !.calls = Append(@, outcome)]
                  /\ pc' = "done"
                  /\ result' = outcome
    /\ UNCHANGED <<call, args, pii_table>>

\* time.sleep(delay); delay *= 2.  time.sleep raises ValueError on a
\* negative delay, and the exception leaves the wrapper.
Backoff ==
    /\ pc = "sleep"
    /\ IF locals.delay < 0
         THEN /\ pc' = "done"
              /\ result' = Raised(<<"ValueError", Len(locals.calls)>>)
              /\ UNCHANGED locals
         ELSE /\ pc' = "for"
              /\ locals' = [locals EXCEPT
                               !.sleeps = Append(@, [after |-> Len(locals.calls),
                                                     seconds |-> locals.delay]),
                               !.delay = @ * 2]
              /\ UNCHANGED result
    /\ UNCHANGED <<call, args, pii_table>>

\* raise last_exception.  Raising None is a TypeError.
RaiseLast ==
    /\ pc = "raise"
    /\ pc' = "done"
    /\ result' = IF locals.last_exception = None
                   THEN Raised(<<"TypeError", 0>>)
                   ELSE Raised(locals.last_exception)
    /\ UNCHANGED <<call, args, locals, pii_table>>

NextRetry == Wrapper \/ ForAttempt \/ TryFunc \/ Backoff \/ RaiseLast

SpecRetry == InitRetry /\ [][NextRetry]_vars

\* The wrapper is sequential code: a step that can be taken is taken, and
\* func and time.sleep come back.
FairSpecRetry == SpecRetry /\ WF_vars(NextRetry)

\* The calls of func the wrapper has made so far.
CallsMade == IF locals = NoLocals THEN <<>> ELSE locals.calls

\* C20: the wrapper built by retry_with_backoff(func, max_retries = N) calls
\* func at most N + 1 times; a call of func that does not raise is the last
\* call and its result is what the wrapper returns; when N + 1 calls were
\* made and all of them raised, the wrapper raises the exception of the last
\* call; and the wrapper terminates.
C20_RetryBounded ==
    /\ [](/\ Len(CallsMade) <= args.max_retries + 1
          /\ \A k \in 1..Len(CallsMade) :
               CallsMade[k].status = "returned" =>
                 /\ k = Len(CallsMade)
                 /\ pc = "done"
                 /\ result = CallsMade[k]
          /\ ( /\ pc = "done"
               /\ Len(CallsMade) >= 1
               /\ Len(CallsMade) = args.max_retries + 1
               /\ \A k \in 1..Len(CallsMade) : CallsMade[k].status = "raised" )
             => result = CallsMade[Len(CallsMade)])
    /\ <>(pc = "done")

\* Two calls fail, the third (the last the wrapper may make) also fails.
C20_Witness ==
    /\ pc = "done"
    /\ args.max_retries = 2
    /\ Len(CallsMade) = 3
    /\ args.func = <<"raises", "raises", "raises">>
    /\ result = Raised(<<"Exception", 3>>)
    /\ locals.delay = 4

(***************************************************************************)
(* Reentrancy: callers that share their argument objects                   *)
(*                                                                         *)
(* SpecReentrant has MaxCallers callers that hold the same text, prompt,   *)
(* response dictionary, guardrail list and data list (args) and call the   *)
(* screening functions again and again.  A call is two steps, its entry    *)
(* and its return, so that calls of different callers overlap; pc, call    *)
(* and result hold one entry per caller.  The functions assign to local    *)
(* names only (results, anomalies, findings, redacted), which is why a     *)
(* return leaves args and pii_table as they are.                           *)
(***************************************************************************)
MaxCallers == 2

Callers == 1..MaxCallers

ScreeningFunctions ==
    {"contains_pii", "detect_pii_detailed", "redact_sensitive_data",
     "check_prompt_injection", "validate_guardrails", "detect_anomalies"}

SharedTexts == { <<"a","@","b",".","c","o">>, <<"x">> }

SharedPrompts == { <<"<","S","C","R","I","P","T",">">>, <<"h","i">> }

SharedResponses ==
    { [k \in {"content_filtered"} |-> "True"], [k \in {"custom"} |-> "None"] }

SharedGuardrails == { <<"content_filter", "custom">> }

SharedData == { <<0, 0, 3>>, <<1, 1>> }

InitReentrant ==
    /\ pc = [t \in Callers |-> "ready"]
    /\ call = [t \in Callers |-> "none"]
    /\ \E text \in SharedTexts, prompt \in SharedPrompts,
          response \in SharedResponses,
          required_guardrails \in SharedGuardrails, data \in SharedData :
           args = [text |-> text, prompt |-> prompt, response |-> response,
                   required_guardrails |-> required_guardrails,
                   data |-> data, threshold |-> RatNorm(1, 1)]
    /\ result = [t \in Callers |-> Pending]
    /\ pii_table = PII_PATTERNS
    /\ locals = NoLocals

\* caller t enters one of the functions
Invoke(t) ==
    /\ pc[t] = "ready"
    /\ \E name \in ScreeningFunctions :
           call' = [call EXCEPT ![t] = name]
    /\ pc' = [pc EXCEPT ![t] = "running"]
    /\ result' = [result EXCEPT ![t] = Pending]
    /\ UNCHANGED <<args, pii_table, locals>>

ContainsPiiReturns(t) ==
    /\ pc[t] = "running"
    /\ call[t] = "contains_pii"
    /\ pc' = [pc EXCEPT ![t] = "ready"]
    /\ result' = [result EXCEPT ![t] = Returned(contains_pii(args.text))]
    /\ UNCHANGED <<call, args, pii_table, locals>>

DetectPiiDetailedReturns(t) ==
    /\ pc[t] = "running"
    /\ call[t] = "detect_pii_detailed"
    /\ pc' = [pc EXCEPT ![t] = "ready"]
    /\ result' = [result EXCEPT ![t] = Returned(detect_pii_detailed(args.text))]
    /\ UNCHANGED <<call, args, pii_table, locals>>

RedactSensitiveDataReturns(t) ==
    /\ pc[t] = "running"
    /\ call[t] = "redact_sensitive_data"
    /\ pc' = [pc EXCEPT ![t] = "ready"]
    /\ result' = [result EXCEPT ![t] = Returned(redact_sensitive_data(args.text))]
    /\ UNCHANGED <<call, args, pii_table, locals>>

CheckPromptInjectionReturns(t) ==
    /\ pc[t] = "running"
    /\ call[t] = "check_prompt_injection"
    /\ pc' = [pc EXCEPT ![t] = "ready"]
    /\ result' = [result EXCEPT ![t] = Returned(check_prompt_injection(args.prompt))]
    /\ UNCHANGED <<call, args, pii_table, locals>>

\* A validate_guardrails that stores each status in response instead of
\* in a fresh dictionary.
ValidateGuardrailsInPlace(t) ==
    /\ pc[t] = "running"
    /\ call[t] = "validate_guardrails"
    /\ pc' = [pc EXCEPT ![t] = "ready"]
    /\ LET results == validate_guardrails(args.response, args.required_guardrails)
       IN  /\ result' = [result EXCEPT ![t] = Returned(results)]
           /\ args' = [args EXCEPT !.response = results @@ @]
    /\ UNCHANGED <<call, pii_table, locals>>

ValidateGuardrailsReturns(t) ==
    /\ pc[t] = "running"
    /\ call[t] = "validate_guardrails"
    /\ pc' = [pc EXCEPT ![t] = "ready"]
    /\ result' = [result EXCEPT ![t] =
                    Returned(validate_guardrails(args.response,
                                                 args.required_guardrails))]
    /\ UNCHANGED <<call, args, pii_table, locals>>

DetectAnomaliesReturns(t) ==
    /\ pc[t] = "running"
    /\ call[t] = "detect_anomalies"
    /\ pc' = [pc EXCEPT ![t] = "ready"]
    /\ result' = [result EXCEPT ![t] =
                    Returned(detect_anomalies(args.data, args.threshold))]
    /\ UNCHANGED <<call, args, pii_table, locals>>

NextReentrant ==
    \E t \in Callers :
        \/ Invoke(t)
        \/ ContainsPiiReturns(t)
        \/ DetectPiiDetailedReturns(t)
        \/ RedactSensitiveDataReturns(t)
        \/ CheckPromptInjectionReturns(t)
        \/ ValidateGuardrailsReturns(t)
        \/ DetectAnomaliesReturns(t)

SpecReentrant == InitReentrant /\ [][NextReentrant]_vars

\* What a function returns for the shared arguments a, whatever ran before.
Alone(name, a) ==
    CASE name = "contains_pii" -> contains_pii(a.text)
      [] name = "detect_pii_detailed" -> detect_pii_detailed(a.text)
      [] name = "redact_sensitive_data" -> redact_sensitive_data(a.text)
      [] name = "check_prompt_injection" -> check_prompt_injection(a.prompt)
      [] name = "validate_guardrails" ->
           validate_guardrails(a.response, a.required_guardrails)
      [] OTHER -> detect_anomalies(a.data, a.threshold)

\* C19: whatever calls of contains_pii, detect_pii_detailed,
\* redact_sensitive_data, check_prompt_injection, validate_guardrails and
\* detect_anomalies run one after another or overlap, no step changes the
\* PII_PATTERNS table or an argument of the caller, and every result a
\* caller holds is what the function returns for those arguments on its own.
C19_CallsLeaveStateAlone ==
    /\ [][args' = args /\ pii_table' = pii_table]_vars
    /\ [](/\ pii_table = PII_PATTERNS
          /\ \A t \in Callers :
               result[t] # Pending =>
                 result[t] = Returned(Alone(call[t], args)))

\* Caller 1 holds the result of validate_guardrails, got while caller 2 was
\* inside detect_anomalies, which has returned since.
C19_Witness ==
    /\ args.response = [k \in {"content_filtered"} |-> "True"]
    /\ args.required_guardrails = <<"content_filter", "custom">>
    /\ args.data = <<0, 0, 3>>
    /\ call[1] = "validate_guardrails"
    /\ result[1] = Returned([g \in {"content_filter", "custom"} |->
                               IF g = "custom" THEN "False" ELSE "True"])
    /\ call[2] = "detect_anomalies"
    /\ result[2] = Returned(<<2>>)

\* The sleeps of the invocation the wrapper is in.
SleepsDone == IF locals = NoLocals THEN <<>> ELSE locals.sleeps

\* 2^k
RECURSIVE PowerOfTwo(_)
PowerOfTwo(k) == IF k = 0 THEN 1 ELSE 2 * PowerOfTwo(k - 1)

\* C21: within one invocation of the wrapper the j-th sleep comes after
\* exactly j calls of func, the j-th of which raised an Exception and was
\* not call N + 1; a further call is made only once that sleep is over; the
\* j-th sleep lasts initial_delay * 2^(j-1); and this holds in every
\* invocation, so each one starts again at initial_delay.
C21_BackoffSchedule ==
    /\ Len(SleepsDone) <= Len(CallsMade)
    /\ Len(CallsMade) <= Len(SleepsDone) + 1
    /\ \A j \in 1..Len(SleepsDone) :
         /\ SleepsDone[j].after = j
         /\ caught(CallsMade[j])
         /\ j < args.max_retries + 1
         /\ SleepsDone[j].seconds = args.initial_delay * PowerOfTwo(j - 1)

\* The second invocation has made its four calls, with sleeps of 1, 2 and 4
\* seconds between them.
C21_Witness ==
    /\ Invocation = 2
    /\ args.initial_delay = 1
    /\ args.max_retries = 3
    /\ Len(CallsMade) = 4
    /\ pc = "done"
    /\ SleepsDone = << [after |-> 1, seconds |-> 1], [after |-> 2, seconds |-> 2],
                       [after |-> 3, seconds |-> 4] >>

(***************************************************************************)
(* core/guardrails.py: LLMGuardrails.sanitize_output                       *)
(***************************************************************************)
\* \b\d{3}-\d{3}-\d{4}\b
SanitizePhonePattern ==
    ReCat(<<ReWordBoundary, ReDigits(3), ReSet({"-"}), ReDigits(3),
            ReSet({"-"}), ReDigits(4), ReWordBoundary>>)

\* the three re.sub calls, in order: email, SSN, phone.  The email and the
\* SSN expressions are those of PII_PATTERNS, character for character.
sanitized_text(text) ==
    re_sub(SanitizePhonePattern, <<"[", "P", "H", "O", "N", "E", "_", "R", "E", "D", "A", "C", "T", "E", "D", "]">>,
           re_sub(SsnPattern, <<"[", "S", "S", "N", "_", "R", "E", "D", "A", "C", "T", "E", "D", "]">>,
                  re_sub(EmailPattern, <<"[", "E", "M", "A", "I", "L", "_", "R", "E", "D", "A", "C", "T", "E", "D", "]">>, text)))

\* 'pii_removed': '[REDACTED]' in text
sanitize_output(text) ==
    LET report(sanitized) ==
            [sanitized_text |-> sanitized,
             pii_removed |-> contains_substring(sanitized, <<"[", "R", "E", "D", "A", "C", "T", "E", "D", "]">>)]
    IN  report(sanitized_text(text))

(***************************************************************************)
(* SpecSanitizeOutput: texts of at most MaxOutputFragments fragments: an   *)
(* email address, an SSN, a phone number, the two bracketed words, and     *)
(* separators.                                                             *)
(***************************************************************************)
MaxOutputFragments == 2

OutputFragments ==
    { <<"a", "@", "b", ".", "c", "o">>,
      <<"1", "2", "3", "-", "4", "5", "-", "6", "7", "8", "9">>,
      <<"1", "2", "3", "-", "4", "5", "6", "-", "7", "8", "9", "0">>,
      <<"[", "R", "E", "D", "A", "C", "T", "E", "D", "]">>,
      <<"[", "E", "M", "A", "I", "L", "_", "R", "E", "D", "A", "C", "T", "E", "D", "]">>,
      <<" ">>,
      <<"x">>,
      <<"1">>,
      <<"-">>,
      <<"@">> }

InitSanitizeOutput ==
    /\ pc = "ready"
    /\ call = "none"
    /\ \E fs \in SeqsUpTo(OutputFragments, MaxOutputFragments) :
           args = [text |-> Flatten(fs)]
    /\ result = Pending
    /\ pii_table = PII_PATTERNS
    /\ locals = NoLocals

SanitizeOutput ==
    /\ pc = "ready"
    /\ pc' = "done"
    /\ call' = "sanitize_output"
    /\ result' = Returned(sanitize_output(args.text))
    /\ UNCHANGED <<args, pii_table, locals>>

NextSanitizeOutput == SanitizeOutput

SpecSanitizeOutput == InitSanitizeOutput /\ [][NextSanitizeOutput]_vars

\* C22 (as claimed): sanitize_output reports pii_removed = True exactly when
\* a substring of the input was replaced by a placeholder, and False when
\* the sanitized text is the input.
C22_PiiRemovedIffReplaced ==
    (pc = "done" /\ call = "sanitize_output") =>
        (result.value.pii_removed <=> result.value.sanitized_text # args.text)

(***************************************************************************)
(* core/helpers.py: truncate_text                                          *)
(***************************************************************************)
\* text[:stop]: a negative stop counts from the end of the text
slice_to(text, stop) ==
    IF stop >= 0 THEN SubSeq(text, 1, Min(stop, Len(text)))
    ELSE SubSeq(text, 1, Max(Len(text) + stop, 0))

truncate_text(text, max_length, suffix) ==
    IF Len(text) <= max_length THEN text
    ELSE slice_to(text, max_length - Len(suffix)) \o suffix

(***************************************************************************)
(* SpecTruncate: texts of at most MaxTruncateText characters, max_length   *)
(* up to MaxTruncateLength, suffixes of at most MaxSuffixLen characters.   *)
(***************************************************************************)
MaxTruncateText == 4

MaxTruncateLength == 4

MaxSuffixLen == 3

TruncateChars == {"a", "b"}

SuffixChars == {"."}

InitTruncate ==
    /\ pc = "ready"
    /\ call = "none"
    /\ \E text \in SeqsUpTo(TruncateChars, MaxTruncateText),
          max_length \in 0..MaxTruncateLength,
          suffix \in SeqsUpTo(SuffixChars, MaxSuffixLen) :
           args = [text |-> text, max_length |-> max_length, suffix |-> suffix]
    /\ result = Pending
    /\ pii_table = PII_PATTERNS
    /\ locals = NoLocals

TruncateText ==
    /\ pc = "ready"
    /\ pc' = "done"
    /\ call' = "truncate_text"
    /\ result' = Returned(truncate_text(args.text, args.max_length, args.suffix))
    /\ UNCHANGED <<args, pii_table, locals>>

NextTruncate == TruncateText

SpecTruncate == InitTruncate /\ [][NextTruncate]_vars

\* C23 (as claimed): for every text, every max_length >= 0 and every suffix,
\* truncate_text returns a string of at most max_length characters, and the
\* text itself when the text has at most max_length characters.
C23_TruncatedWithinMax ==
    (pc = "done" /\ call = "truncate_text") =>
        /\ Len(result.value) <= args.max_length
        /\ Len(args.text) <= args.max_length => result.value = args.text

(***************************************************************************)
(* core/metrics.py: lcs_length of rouge_score on its own                   *)
(*                                                                         *)
(* SpecLcs: rouge_score calls lcs_length(ref_tokens, cand_tokens); the     *)
(* token lists hold at most MaxLcsTokens tokens out of LcsTokens.          *)
(***************************************************************************)
MaxLcsTokens == 3

LcsTokens == {"a", "b", "c"}

InitLcs ==
    /\ pc = "ready"
    /\ call = "none"
    /\ \E x \in SeqsUpTo(LcsTokens, MaxLcsTokens),
          y \in SeqsUpTo(LcsTokens, MaxLcsTokens) :
           args = [x |-> x, y |-> y]
    /\ result = Pending
    /\ pii_table = PII_PATTERNS
    /\ locals = NoLocals

\* lcs = lcs_length(ref_tokens, cand_tokens)
LcsLength ==
    /\ pc = "ready"
    /\ pc' = "done"
    /\ call' = "lcs_length"
    /\ result' = Returned(lcs_length(args.x, args.y))
    /\ UNCHANGED <<args, pii_table, locals>>

NextLcs == LcsLength

SpecLcs == InitLcs /\ [][NextLcs]_vars

\* s[i..] can be read off t[j..] from left to right, skipping tokens of t
RECURSIVE EmbedsFrom(_, _, _, _)
EmbedsFrom(s, i, t, j) ==
    IF i > Len(s) THEN TRUE
    ELSE IF j > Len(t) THEN FALSE
    ELSE IF s[i] = t[j] THEN EmbedsFrom(s, i + 1, t, j + 1)
    ELSE EmbedsFrom(s, i, t, j + 1)

\* s is a subsequence of t
IsSubsequence(s, t) == EmbedsFrom(s, 1, t, 1)

\* The lengths of the common subsequences of x and y.
CommonLengths(x, y) ==
    {Len(s) : s \in {c \in SeqsUpTo(LcsTokens, Min(Len(x), Len(y))) :
                        IsSubsequence(c, x) /\ IsSubsequence(c, y)}}

\* C24: lcs_length(x, y) is the length of a longest common subsequence of
\* x and y: some common subsequence has that length and none is longer; it
\* is 0 when x or y is empty, at most min(len(x), len(y)), and the same for
\* (y, x).
C24_LcsIsLongest ==
    (pc = "done" /\ call = "lcs_length") =>
        /\ result.value \in CommonLengths(args.x, args.y)
        /\ \A k \in CommonLengths(args.x, args.y) : k <= result.value
        /\ (args.x = <<>> \/ args.y = <<>>) => result.value = 0
        /\ result.value <= Min(Len(args.x), Len(args.y))
        /\ result.value = lcs_length(args.y, args.x)

\* The longest common subsequence a, c skips a token of x.
C24_Witness ==
    /\ pc = "done"
    /\ call = "lcs_length"
    /\ args.x = <<"a", "b", "c">>
    /\ args.y = <<"c", "a", "c">>
    /\ result.value = 2

====
